---- MODULE Spec2Model ----
(***************************************************************************)
(* Model of the aggregation, comparison and forecasting engine of the      *)
(* wx-cfo-scorecard dashboard (src/src/lib/data/normalize.ts, the KPI      *)
(* engine that src/src/lib/kpis/compute.ts re-exports in older versions).  *)
(*                                                                         *)
(* Units.  Money is held in whole cents and rates in hundredths of a       *)
(* percent, so the code's round2 (2 decimals) is rounding to an integer.   *)
(* Values the code leaves unrounded (percentChange) are exact rationals    *)
(* <<numerator, denominator>>.  Strings that the code parses, formats or   *)
(* compares (month keys, categories) are sequences of characters/tokens.   *)
(* A nullable value is Null (the empty tuple) or Some(v) (a 1-tuple).      *)
(***************************************************************************)
EXTENDS Integers, Sequences, FiniteSets, TLC

VARIABLES
    txns,           \* the Txn[] handed to computeDashboardModel
    cashFlowMode,   \* 'operating' | 'total'
    model,          \* the DashboardModel computed from (txns, cashFlowMode)
    scenarioInput,  \* the ScenarioInput of the what-if tab
    scenario,       \* projectScenario(model, scenarioInput)
    wRollups,       \* a sorted MonthlyRollup[] handed to the window selector
    wWindows,       \* selectRollupsForTimeframe(wRollups, tf) per KPI timeframe
    wBlocks,        \* selectComparisonBlocks(wRollups, tf) per comparison timeframe
    wComparisons,   \* computeKpiComparisons(wRollups)
    wSelfComparisons, \* buildTimeframeComparison of each current block with itself
    wSignals,       \* computeTrajectorySignals(wComparisons)
    csvRecords,     \* the CsvRecord[] handed to normalizeRecords
    dataSetTxns,    \* normalizeRecords(csvRecords), the txns of the DataSet
    fetchCall,      \* the arguments of the fetchSheetCsv call: primaryUrl, fallbackUrl
    fetchPc,        \* where the call stands: idle, loop, awaiting, returned, thrown
    urls,           \* fetchSheetCsv: the URLs the loop goes through
    urlIndex,       \* fetchSheetCsv: the position of the loop in urls
    lastError,      \* fetchSheetCsv: the error caught last, or Null
    attempts,       \* the requests sent by the call, in order, each with its outcome
    fetchResult,    \* the value the call returned, or Null
    fetchThrown,    \* the error the call threw, or Null
    sRollups,       \* a MonthlyRollup[] handed to buildCashFlowForecastSeries
    sSeasonality,   \* the expenseSeasonality it detects on sRollups, or Null
    aTxns,          \* a ledger of several months, in date order
    aRollups,       \* computeMonthlyRollups(aTxns)
    aOpportunities, \* buildOpportunities on the latest month of aTxns
    aMovers,        \* buildMovers on the latest and the previous month of aTxns
    fProfile,       \* the history the forecast ledger follows
    fRollups,       \* a MonthlyRollup[] of many months handed to buildCashFlowForecastSeries
    fRevenueTrend,  \* its revenueTrendModel, or Null
    fExpenseTrend,  \* its expenseTrendModel, or Null
    fSeasonality,   \* its expenseSeasonality, or Null
    fSeries,        \* the CashFlowForecastPoint[] it returns
    csvUrl,         \* Dashboard: the CSV URL state
    dataSet,        \* Dashboard: the displayed data set, as the sync that fetched it and its source URL
    syncError,      \* Dashboard: the error state, the message of the sync that failed
    loading,        \* Dashboard: a sync is shown as running
    syncs,          \* the runSync calls in the order they started, each with its URL and outcome
    activeTab,      \* Dashboard: the tab shown
    availableMonths,\* Dashboard: the months of the data set, latest first
    digHereFocusMonth,\* Dashboard: the single month in focus, or Null
    digHereStartMonth,\* Dashboard: the first month of the custom range, or Null
    digHereEndMonth,\* Dashboard: the last month of the custom range, or Null
    digHereFocusContext,\* Dashboard: what the focus came from, or Null
    isMonthPickerOpen,\* Dashboard: the month picker is open
    monthPickerMode,\* Dashboard: 'month' | 'period'
    monthPickerDraftMonth,\* Dashboard: the month chosen in the picker, '' as the empty text
    monthPickerDraftStart,\* Dashboard: the range start chosen in the picker
    monthPickerDraftEnd\* Dashboard: the range end chosen in the picker

vars == <<txns, cashFlowMode, model, scenarioInput, scenario,
          wRollups, wWindows, wBlocks, wComparisons, wSelfComparisons, wSignals,
          csvRecords, dataSetTxns,
          fetchCall, fetchPc, urls, urlIndex, lastError, attempts, fetchResult, fetchThrown,
          sRollups, sSeasonality,
          aTxns, aRollups, aOpportunities, aMovers,
          fProfile, fRollups, fRevenueTrend, fExpenseTrend, fSeasonality, fSeries,
          csvUrl, dataSet, syncError, loading, syncs,
          activeTab, availableMonths, digHereFocusMonth, digHereStartMonth, digHereEndMonth, digHereFocusContext, isMonthPickerOpen, monthPickerMode, monthPickerDraftMonth, monthPickerDraftStart, monthPickerDraftEnd>>

engineVars == <<txns, cashFlowMode, model, scenarioInput, scenario>>
windowVars == <<wRollups, wWindows, wBlocks, wComparisons, wSelfComparisons, wSignals>>
ingestVars == <<csvRecords, dataSetTxns>>
fetchVars == <<fetchCall, fetchPc, urls, urlIndex, lastError, attempts, fetchResult, fetchThrown>>
seasonVars == <<sRollups, sSeasonality>>
analyticsVars == <<aTxns, aRollups, aOpportunities, aMovers>>
forecastVars == <<fProfile, fRollups, fRevenueTrend, fExpenseTrend, fSeasonality, fSeries>>
syncVars == <<csvUrl, dataSet, syncError, loading, syncs>>
navVars == <<activeTab, availableMonths, digHereFocusMonth, digHereStartMonth, digHereEndMonth, digHereFocusContext, isMonthPickerOpen, monthPickerMode, monthPickerDraftMonth, monthPickerDraftStart, monthPickerDraftEnd>>

-----------------------------------------------------------------------------
(* Bounds of the model *)

MaxTxns == 3            \* transactions in the list handed to the engine
MaxScenarioMonths == 2  \* largest ScenarioInput.months
MaxSeasonalMonths == 4  \* months in the rollup list handed to the seasonality detection
MaxLedgerMonths == 5    \* months in the ledger handed to the latest-month analytics
MaxHistoryMonths == 24  \* months in the history handed to the forecast
MaxRollups == 73        \* months in the rollup list handed to the window selector
SeedMonths == 3         \* months of a rollup list that are chosen freely

-----------------------------------------------------------------------------
(* Generic helpers *)

Null == <<>>
Some(v) == <<v>>

Abs(x) == IF x < 0 THEN -x ELSE x
Max(a, b) == IF a >= b THEN a ELSE b
Min(a, b) == IF a <= b THEN a ELSE b

RECURSIVE GCD(_, _)
GCD(a, b) == IF b = 0 THEN a ELSE GCD(b, a % b)

\* The exact rational num/den (den # 0) in lowest terms, denominator positive.
Rat(num, den) ==
    LET g == GCD(Abs(num), Abs(den))
        s == IF den < 0 THEN -1 ELSE 1
    IN  <<s * (num \div g), Abs(den) \div g>>

RECURSIVE SumSeq(_)
SumSeq(s) == IF s = <<>> THEN 0 ELSE Head(s) + SumSeq(Tail(s))

\* Array.prototype.slice(-count) for count > 0
SliceLast(s, count) ==
    IF Len(s) <= count THEN s ELSE SubSeq(s, Len(s) - count + 1, Len(s))

\* Array.prototype.slice(start, endExclusive) with 0 <= start <= endExclusive <= length
Slice(s, start, endExclusive) == SubSeq(s, start + 1, endExclusive)

SeqMap(Op(_), s) == [i \in 1..Len(s) |-> Op(s[i])]

-----------------------------------------------------------------------------
(* Numbers of the engine *)

CentsPerUnit == 100
EpsilonInverse == 100000

\* Math.abs(x) <= EPSILON for x held in hundredths (cents, or 0.01 %)
AbsLeEpsilon(x) ==
    IF Abs(x) >= CentsPerUnit THEN FALSE
    ELSE Abs(x) * EpsilonInverse <= CentsPerUnit

\* x > EPSILON for x held in hundredths
GtEpsilon(x) == x > 0 /\ ~AbsLeEpsilon(x)

\* round2 of the exact value num/den (den > 0) held in hundredths:
\* Math.round(v * 100) / 100, Math.round rounding halves towards +Infinity.
round2(num, den) ==
    (num \div den) + (IF 2 * (num % den) >= den THEN 1 ELSE 0)
trendFromDelta_Inverted(delta) ==
    IF AbsLeEpsilon(delta) THEN "flat" ELSE IF delta > 0 THEN "down" ELSE "up"

trendFromDelta(delta) ==
    IF AbsLeEpsilon(delta) THEN "flat"
    ELSE IF delta > 0 THEN "up" ELSE "down"

pctDelta_ZeroBaseline(current, previous) ==
    IF AbsLeEpsilon(previous) THEN Some(<<0, 1>>)
    ELSE Some(Rat((current - previous) * 100, Abs(previous)))

pctDelta(current, previous) ==
    IF AbsLeEpsilon(previous) THEN Null
    ELSE Some(Rat((current - previous) * 100, Abs(previous)))

-----------------------------------------------------------------------------
(* Month keys: "YYYY-MM" as a sequence of characters, a digit d as d and    *)
(* '-' as Dash (it sorts before every digit, as U+002D does before U+0030). *)

Dash == -1

IsDigit(c) == c \in 0..9

RECURSIVE DigitsOf(_)
\* String(n) for an integer n >= 0
DigitsOf(n) == IF n < 10 THEN <<n>> ELSE Append(DigitsOf(n \div 10), n % 10)

RECURSIVE padStart(_, _)
\* String.prototype.padStart(width, '0')
padStart(digits, width) ==
    IF Len(digits) >= width THEN digits ELSE padStart(<<0>> \o digits, width)

RECURSIVE parseInt(_)
\* Number.parseInt(text, 10) of a non-empty run of digits
parseInt(digits) ==
    IF Len(digits) = 0 THEN 0
    ELSE parseInt(SubSeq(digits, 1, Len(digits) - 1)) * 10 + digits[Len(digits)]

\* The first index of Dash in text, or Len(text) + 1
DashAt(text) ==
    IF \E i \in 1..Len(text) : text[i] = Dash
    THEN CHOOSE i \in 1..Len(text) :
            text[i] = Dash /\ \A j \in 1..(i - 1) : text[j] # Dash
    ELSE Len(text) + 1

\* month.split('-')[0] and [1]
SplitYearText(month) == SubSeq(month, 1, DashAt(month) - 1)
SplitMonthText(month) ==
    LET rest == SubSeq(month, DashAt(month) + 1, Len(month))
    IN  SubSeq(rest, 1, DashAt(rest) - 1)

RECURSIVE localeCompare(_, _)
\* a.localeCompare(b) / the relational order of two keys: -1, 0 or 1,
\* character by character, a proper prefix first.
localeCompare(a, b) ==
    IF a = <<>> /\ b = <<>> THEN 0
    ELSE IF a = <<>> THEN -1
    ELSE IF b = <<>> THEN 1
    ELSE IF Head(a) < Head(b) THEN -1
    ELSE IF Head(a) > Head(b) THEN 1
    ELSE localeCompare(Tail(a), Tail(b))

sortMonths(a, b) == localeCompare(a, b)

\* a < b on strings
StrLess(a, b) == localeCompare(a, b) < 0

\* /^(\d{4})-(\d{2})$/ with the month number in 1..12: Some([year, month]) or Null
parseMonthParts(month) ==
    IF /\ Len(month) = 7
       /\ \A i \in {1, 2, 3, 4, 6, 7} : IsDigit(month[i])
       /\ month[5] = Dash
    THEN LET year == parseInt(SubSeq(month, 1, 4))
             monthNumber == parseInt(SubSeq(month, 6, 7))
         IN  IF monthNumber < 1 \/ monthNumber > 12 THEN Null
             ELSE Some([year |-> year, month |-> monthNumber])
    ELSE Null

\* Date.UTC(year, monthIndex, 1): a year in 0..99 means 1900 + year
\* (ECMAScript MakeFullYear); the month index carries into the year.
DateUTCMonths(year, monthIndex) ==
    LET fullYear == IF 0 <= year /\ year <= 99 THEN 1900 + year ELSE year
    IN  fullYear * 12 + monthIndex

addMonths(month, offset) ==
    LET year == parseInt(SplitYearText(month))
        monthIndex == parseInt(SplitMonthText(month)) - 1
        date == DateUTCMonths(year, monthIndex + offset)
        nextYear == date \div 12
        nextMonth == padStart(DigitsOf((date % 12) + 1), 2)
    IN  DigitsOf(nextYear) \o <<Dash>> \o nextMonth

\* The key of calendar month (year, month) as parseDate writes it
MonthKey(year, month) ==
    padStart(DigitsOf(year), 4) \o <<Dash>> \o padStart(DigitsOf(month), 2)

-----------------------------------------------------------------------------
(* Categories: a category string as a sequence of tokens, each a word or a  *)
(* single separator character.                                             *)

Space == " "
Colon == ":"

\* String.prototype.toLowerCase on one token
toLowerCase(token) ==
    CASE token = "Capital" -> "capital"
      [] token = "Distribution" -> "distribution"
      [] token = "Distributions" -> "distributions"
      [] token = "Owner" -> "owner"
      [] token = "Rent" -> "rent"
      [] token = "Sales" -> "sales"
      [] token = "Payroll" -> "payroll"
      [] token = "Utilities" -> "utilities"
      [] token = "Software" -> "software"
      [] token = "Travel" -> "travel"
      [] token = "Meals" -> "meals"
      [] token = "Insurance" -> "insurance"
      [] token = "Marketing" -> "marketing"
      [] token = "Supplies" -> "supplies"
      [] token = "Fees" -> "fees"
      [] token = "Repairs" -> "repairs"
      [] OTHER -> token

\* [a-z0-9: ] keeps lower-case words, ':' and ' '
IsKeptToken(token) ==
    token \in {"capital", "distribution", "distributions", "owner", "rent", "sales",
               "payroll", "utilities", "software", "travel", "meals", "insurance",
               "marketing", "supplies", "fees", "repairs", Colon, Space}

RECURSIVE CollapseSpaces(_)
\* replace(/\s+/g, ' ')
CollapseSpaces(s) ==
    IF Len(s) < 2 THEN s
    ELSE IF s[1] = Space /\ s[2] = Space THEN CollapseSpaces(Tail(s))
    ELSE <<s[1]>> \o CollapseSpaces(Tail(s))

RECURSIVE TrimStart(_)
TrimStart(s) == IF s # <<>> /\ Head(s) = Space THEN TrimStart(Tail(s)) ELSE s

RECURSIVE TrimEnd(_)
TrimEnd(s) ==
    IF s # <<>> /\ s[Len(s)] = Space THEN TrimEnd(SubSeq(s, 1, Len(s) - 1)) ELSE s

\* String.prototype.trim
Trim(s) == TrimEnd(TrimStart(s))

normalizeCategory(category) ==
    LET lowered == [i \in 1..Len(category) |-> toLowerCase(category[i])]
        replaced == [i \in 1..Len(lowered) |->
                        IF IsKeptToken(lowered[i]) THEN lowered[i] ELSE Space]
    IN  Trim(CollapseSpaces(replaced))

RECURSIVE SplitColon(_)
\* split(':'): the sequence of segments between colons
SplitColon(s) ==
    IF \E i \in 1..Len(s) : s[i] = Colon
    THEN LET i == CHOOSE k \in 1..Len(s) :
                     s[k] = Colon /\ \A j \in 1..(k - 1) : s[j] # Colon
         IN  <<SubSeq(s, 1, i - 1)>> \o SplitColon(SubSeq(s, i + 1, Len(s)))
    ELSE <<s>>

CapitalDistributionText == <<"capital", Space, "distribution">>

isCapitalDistribution(category) ==
    LET normalized == normalizeCategory(category)
        segments == SeqMap(Trim, SplitColon(normalized))
    IN  IF normalized = <<>> THEN FALSE
        ELSE IF normalized = CapitalDistributionText THEN TRUE
        ELSE \E i \in 1..Len(segments) :
                segments[i] # <<>> /\ segments[i] = CapitalDistributionText

-----------------------------------------------------------------------------
(* Ledger text: the Date and Amount cells of a record as sequences of      *)
(* characters, a digit d as d, '-' as Dash and the other characters below. *)

Slash == -2
Dot == -3
Dollar == -4
Comma == -5
LParen == -6
RParen == -7

Uncategorized == <<"Uncategorized">>

RECURSIVE DigitRun(_, _)
\* The length of the run of digits of text that starts at index from
DigitRun(text, from) ==
    IF from <= Len(text) /\ IsDigit(text[from]) THEN 1 + DigitRun(text, from + 1) ELSE 0

\* The first two fraction digits as cents; the ledger cells carry at most two
FractionCents(digits) ==
    IF Len(digits) = 0 THEN 0
    ELSE IF Len(digits) = 1 THEN digits[1] * 10
    ELSE digits[1] * 10 + digits[2]

\* Number.parseFloat(text) in cents: an optional '-', digits, an optional '.' and
\* digits, read from the start of the text; Null stands for NaN
parseFloat(text) ==
    LET negative == Len(text) > 0 /\ text[1] = Dash
        start == IF negative THEN 2 ELSE 1
        wholeLen == DigitRun(text, start)
        dotAt == start + wholeLen
        fractionLen == IF dotAt <= Len(text) /\ text[dotAt] = Dot
                       THEN DigitRun(text, dotAt + 1) ELSE 0
        cents == parseInt(SubSeq(text, start, dotAt - 1)) * CentsPerUnit
                 + FractionCents(SubSeq(text, dotAt + 1, dotAt + fractionLen))
    IN  IF wholeLen = 0 /\ fractionLen = 0 THEN Null
        ELSE Some(IF negative THEN -cents ELSE cents)

\* raw.replace(/[$,()\s]/g, '')
StripAmountMarks(text) ==
    SelectSeq(text, LAMBDA c : c \notin {Dollar, Comma, LParen, RParen})

parseAmount(raw) ==
    IF Len(raw) = 0 THEN Null
    ELSE LET isParenNegative == raw[1] = LParen /\ raw[Len(raw)] = RParen
             amount == parseFloat(StripAmountMarks(raw))
         IN  IF amount = Null THEN Null
             ELSE Some(IF isParenNegative THEN -Abs(amount[1]) ELSE amount[1])

IsLeapYear(year) == year % 4 = 0 /\ (year % 100 # 0 \/ year % 400 = 0)

DaysInMonth(year, month) ==
    IF month = 2 THEN (IF IsLeapYear(year) THEN 29 ELSE 28)
    ELSE IF month \in {4, 6, 9, 11} THEN 30 ELSE 31

\* /^\d{4}-\d{2}-\d{2}$/
IsIsoDateText(value) ==
    /\ Len(value) = 10
    /\ \A i \in 1..10 : IF i \in {5, 8} THEN value[i] = Dash ELSE IsDigit(value[i])

\* new Date(`${value}T00:00:00`) is a valid date: a month 01..12 and a day 01..31
\* (a day past the end of a shorter month rolls over into the next month)
IsoDateIsValid(value) ==
    /\ parseInt(SubSeq(value, 6, 7)) \in 1..12
    /\ parseInt(SubSeq(value, 9, 10)) \in 1..31

\* value.match(/^(\d{1,2})\/(\d{1,2})\/(\d{2,4})$/): the three groups, or Null
slashMatch(value) ==
    LET slashes == {i \in 1..Len(value) : value[i] = Slash}
    IN  IF Cardinality(slashes) # 2 THEN Null
        ELSE LET first == CHOOSE i \in slashes : \A j \in slashes : i <= j
                 second == CHOOSE i \in slashes : \A j \in slashes : i >= j
                 groups == << SubSeq(value, 1, first - 1),
                              SubSeq(value, first + 1, second - 1),
                              SubSeq(value, second + 1, Len(value)) >>
             IN  IF /\ \A g \in 1..3 : \A i \in 1..Len(groups[g]) : IsDigit(groups[g][i])
                    /\ Len(groups[1]) \in 1..2
                    /\ Len(groups[2]) \in 1..2
                    /\ Len(groups[3]) \in 2..4
                 THEN Some(groups) ELSE Null

\* The slash branch of parseDate on the numbers read from the three groups
SlashDate(month, day, shortYear) ==
    LET year == IF shortYear < 100
                THEN shortYear + (IF shortYear >= 70 THEN 1900 ELSE 2000)
                ELSE shortYear
    IN  IF month \notin 1..12 \/ day \notin 1..DaysInMonth(year, month) THEN Null
        ELSE Some(DigitsOf(year) \o <<Dash>> \o padStart(DigitsOf(month), 2)
                  \o <<Dash>> \o padStart(DigitsOf(day), 2))

parseDate(raw) ==
    IF Len(raw) = 0 THEN Null
    ELSE IF IsIsoDateText(raw) THEN (IF IsoDateIsValid(raw) THEN Some(raw) ELSE Null)
    ELSE LET match == slashMatch(raw)
         IN  IF match = Null THEN Null
             ELSE SlashDate(parseInt(match[1][1]), parseInt(match[1][2]),
                            parseInt(match[1][3]))

-----------------------------------------------------------------------------
(* Transactions *)

classifyType(rawAmount) == IF rawAmount >= 0 THEN "income" ELSE "expense"

\* toTransaction on a record whose date and amount have parsed:
\* isoDate is YYYY-MM-DD as characters, rawAmount signed cents.
toTransaction(isoDate, rawAmount, category, payee) ==
    [ date |-> isoDate,
      month |-> SubSeq(isoDate, 1, 7),
      type |-> classifyType(rawAmount),
      amount |-> Abs(rawAmount),
      category |-> category,
      payee |-> payee,
      rawAmount |-> rawAmount ]

\* toTransaction on a record (its Date, Amount, Category and Payee cells):
\* Null when the date or the amount does not parse
recordToTransaction(record) ==
    LET isoDate == parseDate(record.Date)
        rawAmount == parseAmount(record.Amount)
    IN  IF isoDate = Null \/ rawAmount = Null THEN Null
        ELSE Some(toTransaction(isoDate[1], rawAmount[1],
                                IF Len(record.Category) = 0 THEN Uncategorized
                                ELSE record.Category,
                                record.Payee))

RECURSIVE InsertByDate(_, _)
\* txn put into a list sorted by date, after the entries of the same date
InsertByDate(sorted, txn) ==
    IF Len(sorted) = 0 THEN <<txn>>
    ELSE IF localeCompare(txn.date, sorted[1].date) < 0 THEN <<txn>> \o sorted
    ELSE <<sorted[1]>> \o InsertByDate(Tail(sorted), txn)

RECURSIVE SortByDate(_)
SortByDate(list) ==
    IF Len(list) = 0 THEN <<>>
    ELSE InsertByDate(SortByDate(SubSeq(list, 1, Len(list) - 1)), list[Len(list)])

RECURSIVE ParsedRecords(_)
\* records.map(toTransaction).filter(Boolean)
ParsedRecords(records) ==
    IF Len(records) = 0 THEN <<>>
    ELSE LET txn == recordToTransaction(records[1])
         IN  (IF txn = Null THEN <<>> ELSE txn) \o ParsedRecords(Tail(records))

\* normalizeRecords: the parsed records sorted by date (records of one date differ
\* in nothing in the ledgers used here, so the comparison of ids never decides)
normalizeRecords(records) == SortByDate(ParsedRecords(records))

-----------------------------------------------------------------------------
(* CSV adapter: the rows of a response text become records. Cells are     *)
(* strings; the texts are given as the rows parseCsvRows reads from them. *)

\* value.toLowerCase().replace(/[^a-z0-9]/g, '') on the cells of the sample sheets
NormalizedCells ==
    [ Date |-> "date", Amount |-> "amount", Category |-> "category",
      Ledger |-> "ledger", Sales |-> "sales", Rent |-> "rent" ]

normalizeHeader(value) ==
    IF value \in DOMAIN NormalizedCells THEN NormalizedCells[value]
    ELSE IF value = "2024-01-15" THEN "20240115"
    ELSE IF value = "200.00" THEN "20000"
    ELSE IF value = "2024-01-20" THEN "20240120"
    ELSE IF value = "-120.00" THEN "12000"
    ELSE ""

\* cell.trim(): the only cell with white space in the sample sheets is " "
TrimCell(cell) == IF cell = " " THEN "" ELSE cell

\* row.some((cell) => cell.trim().length > 0)
RowHasContent(row) == \E k \in 1..Len(row) : TrimCell(row[k]) # ""

\* The row names both a date and an amount column
IsHeaderRow(row) ==
    /\ \E k \in 1..Len(row) : normalizeHeader(row[k]) = "date"
    /\ \E k \in 1..Len(row) : normalizeHeader(row[k]) = "amount"

\* cleanedRows.findIndex(...) as a position from 1, the first row when none matches
HeaderRowIndex(cleanedRows) ==
    IF \E i \in 1..Len(cleanedRows) : IsHeaderRow(cleanedRows[i])
    THEN CHOOSE i \in 1..Len(cleanedRows) :
            IsHeaderRow(cleanedRows[i]) /\ \A j \in 1..(i - 1) : ~IsHeaderRow(cleanedRows[j])
    ELSE 1

\* The record of one row: each non-empty header with the cell at its position,
\* '' where the row is shorter (a later column of the same name wins)
RecordOfRow(headers, row) ==
    [ header \in {headers[k] : k \in {j \in 1..Len(headers) : headers[j] # ""}} |->
        LET position == CHOOSE k \in 1..Len(headers) :
                            /\ headers[k] = header
                            /\ \A j \in (k + 1)..Len(headers) : headers[j] # header
        IN  IF position <= Len(row) THEN TrimCell(row[position]) ELSE "" ]

\* Object.values(record).some((value) => value.length > 0)
RecordHasValue(record) == \E header \in DOMAIN record : record[header] # ""

RECURSIVE RecordsAfter(_, _, _)
\* The loop over the rows after the header row
RecordsAfter(headers, cleanedRows, i) ==
    IF i > Len(cleanedRows) THEN <<>>
    ELSE LET record == RecordOfRow(headers, cleanedRows[i])
         IN  (IF RecordHasValue(record) THEN <<record>> ELSE <<>>)
             \o RecordsAfter(headers, cleanedRows, i + 1)

RecordsOfCleanedRows(cleanedRows) ==
    IF Len(cleanedRows) = 0 THEN <<>>
    ELSE RecordsAfter(SeqMap(TrimCell, cleanedRows[HeaderRowIndex(cleanedRows)]),
                      cleanedRows, HeaderRowIndex(cleanedRows) + 1)

rowsToRecords(rows) == RecordsOfCleanedRows(SelectSeq(rows, RowHasContent))

\* The errors fetchSheetCsv catches, each tagged with the URL of its attempt
\* (status is 0 where no response status is involved)
FetchError(kind, status, url) == [kind |-> kind, status |-> status, url |-> url]

\* new Error('Failed to fetch CSV data')
FailedToFetchError == FetchError("failedToFetch", 0, "")

ConfiguredUrls_FallbackFirst(primaryUrl, fallbackUrl) ==
    SelectSeq(<<fallbackUrl, primaryUrl>>, LAMBDA value : value # "")

\* [primaryUrl, fallbackUrl].filter(Boolean): '' stands for an absent URL too
ConfiguredUrls(primaryUrl, fallbackUrl) ==
    SelectSeq(<<primaryUrl, fallbackUrl>>, LAMBDA value : value # "")

-----------------------------------------------------------------------------
(* Monthly Rollup Builder *)

NewRollup(month) ==
    [ month |-> month, revenue |-> 0, expenses |-> 0, netCashFlow |-> 0,
      savingsRate |-> 0, transactionCount |-> 0, capitalDistribution |-> 0 ]

\* Index of the entry of monthMap keyed by month, 0 when absent (Map.has/get)
MonthMapIndex(monthMap, month) ==
    IF \E i \in 1..Len(monthMap) : monthMap[i].month = month
    THEN CHOOSE i \in 1..Len(monthMap) : monthMap[i].month = month
    ELSE 0

\* Mutants of the forEach body
AccumulateTxn_ModeIgnored(rollup, txn, mode) ==
    LET revenue == IF txn.type = "income" THEN rollup.revenue + txn.amount ELSE rollup.revenue
        expenses == IF txn.type = "income" THEN rollup.expenses ELSE rollup.expenses + txn.amount
        capital == IF txn.type # "income" /\ isCapitalDistribution(txn.category)
                   THEN rollup.capitalDistribution + txn.amount
                   ELSE rollup.capitalDistribution
    IN  [ rollup EXCEPT !.revenue = revenue, !.expenses = expenses,
                        !.capitalDistribution = capital,
                        !.netCashFlow = revenue - expenses,
                        !.transactionCount = @ + 1 ]

AccumulateTxn_ExpensesUncounted(rollup, txn, mode) ==
    LET revenue == IF txn.type = "income" THEN rollup.revenue + txn.amount ELSE rollup.revenue
        expenses == IF txn.type = "income" THEN rollup.expenses ELSE rollup.expenses + txn.amount
        capital == IF txn.type # "income" /\ isCapitalDistribution(txn.category)
                   THEN rollup.capitalDistribution + txn.amount
                   ELSE rollup.capitalDistribution
        effectiveExpenses == IF mode = "operating" THEN expenses - capital ELSE expenses
    IN  [ rollup EXCEPT !.revenue = revenue, !.expenses = expenses,
                        !.capitalDistribution = capital,
                        !.netCashFlow = revenue - effectiveExpenses,
                        !.transactionCount = IF txn.type = "income" THEN @ + 1 ELSE @ ]
\* Mutant: operating mode also leaves the capital distributions out of expenses
AccumulateTxn_ExpensesNetOfCapital(rollup, txn, mode) ==
    LET revenue == IF txn.type = "income" THEN rollup.revenue + txn.amount ELSE rollup.revenue
        capital == IF txn.type # "income" /\ isCapitalDistribution(txn.category)
                   THEN rollup.capitalDistribution + txn.amount
                   ELSE rollup.capitalDistribution
        expenses == IF txn.type = "income" THEN rollup.expenses
                    ELSE IF mode = "operating" /\ isCapitalDistribution(txn.category)
                         THEN rollup.expenses
                         ELSE rollup.expenses + txn.amount
    IN  [ rollup EXCEPT !.revenue = revenue, !.expenses = expenses,
                        !.capitalDistribution = capital,
                        !.netCashFlow = revenue - expenses,
                        !.transactionCount = @ + 1 ]

\* The forEach body of computeMonthlyRollups on the rollup of txn.month
AccumulateTxn(rollup, txn, mode) ==
    LET revenue == IF txn.type = "income" THEN rollup.revenue + txn.amount ELSE rollup.revenue
        expenses == IF txn.type = "income" THEN rollup.expenses ELSE rollup.expenses + txn.amount
        capital == IF txn.type # "income" /\ isCapitalDistribution(txn.category)
                   THEN rollup.capitalDistribution + txn.amount
                   ELSE rollup.capitalDistribution
        effectiveExpenses == IF mode = "operating" THEN expenses - capital ELSE expenses
    IN  [ rollup EXCEPT !.revenue = revenue, !.expenses = expenses,
                        !.capitalDistribution = capital,
                        !.netCashFlow = revenue - effectiveExpenses,
                        !.transactionCount = @ + 1 ]

RECURSIVE BuildMonthMap(_, _, _)
\* txns.forEach over the insertion-ordered Map
BuildMonthMap(monthMap, list, mode) ==
    IF list = <<>> THEN monthMap
    ELSE LET txn == Head(list)
             i == MonthMapIndex(monthMap, txn.month)
         IN  IF i = 0
             THEN BuildMonthMap(Append(monthMap, AccumulateTxn(NewRollup(txn.month), txn, mode)),
                                Tail(list), mode)
             ELSE BuildMonthMap([monthMap EXCEPT ![i] = AccumulateTxn(@, txn, mode)],
                                Tail(list), mode)

RECURSIVE InsertByMonth(_, _)
InsertByMonth(sorted, rollup) ==
    IF sorted = <<>> THEN <<rollup>>
    ELSE IF sortMonths(rollup.month, Head(sorted).month) < 0
         THEN <<rollup>> \o sorted
         ELSE <<Head(sorted)>> \o InsertByMonth(Tail(sorted), rollup)

RECURSIVE SortRollups_Fold(_, _)
SortRollups_Fold(sorted, rest) ==
    IF rest = <<>> THEN sorted
    ELSE SortRollups_Fold(InsertByMonth(sorted, Head(rest)), Tail(rest))
\* Mutant: the rollups sorted by month descending
SortRollups_Descending(rollups) ==
    LET ascending == SortRollups_Fold(<<>>, rollups)
    IN  [i \in 1..Len(ascending) |-> ascending[Len(ascending) + 1 - i]]

SortRollups_Unsorted(rollups) == rollups

\* [...].sort((a, b) => sortMonths(a.month, b.month)), a stable sort
SortRollups(rollups) == SortRollups_Fold(<<>>, rollups)

\* The final .map: round the money, derive savingsRate, drop capitalDistribution
ExportRollup(rollup) ==
    [ month |-> rollup.month,
      revenue |-> round2(rollup.revenue, 1),
      expenses |-> round2(rollup.expenses, 1),
      netCashFlow |-> round2(rollup.netCashFlow, 1),
      savingsRate |-> IF GtEpsilon(rollup.revenue)
                      THEN round2(rollup.netCashFlow * 100 * CentsPerUnit, rollup.revenue)
                      ELSE round2(0, 1),
      transactionCount |-> rollup.transactionCount ]

computeMonthlyRollups(list, mode) ==
    SeqMap(ExportRollup, SortRollups(BuildMonthMap(<<>>, list, mode)))

-----------------------------------------------------------------------------
(* Timeframe Window Selector and KPI Aggregation *)

KPI_TIMEFRAMES ==
    <<"thisMonth", "lastMonth", "last3Months", "ytd", "last12Months",
      "last24Months", "last36Months", "allDates">>

KPI_COMPARISON_TIMEFRAMES ==
    <<"thisMonth", "last3Months", "ytd", "ttm", "last24Months", "last36Months">>

Range(s) == {s[i] : i \in 1..Len(s)}

RevenueOf(rollup) == rollup.revenue
ExpensesOf(rollup) == rollup.expenses
TransactionCountOf(rollup) == rollup.transactionCount

EmptySummary ==
    [ startMonth |-> Null, endMonth |-> Null, monthCount |-> 0,
      transactionCount |-> 0, revenue |-> 0, expenses |-> 0,
      netCashFlow |-> 0, savingsRate |-> 0 ]
SavingsRateOf(rollup) == rollup.savingsRate

summarizeRollups_AveragedRate(rollups) ==
    IF Len(rollups) = 0 THEN EmptySummary
    ELSE LET revenue == SumSeq(SeqMap(RevenueOf, rollups))
             expenses == SumSeq(SeqMap(ExpensesOf, rollups))
         IN  [ startMonth |-> Some(rollups[1].month),
               endMonth |-> Some(rollups[Len(rollups)].month),
               monthCount |-> Len(rollups),
               transactionCount |-> SumSeq(SeqMap(TransactionCountOf, rollups)),
               revenue |-> round2(revenue, 1),
               expenses |-> round2(expenses, 1),
               netCashFlow |-> round2(revenue - expenses, 1),
               savingsRate |-> round2(SumSeq(SeqMap(SavingsRateOf, rollups)), Len(rollups)) ]

summarizeRollups(rollups) ==
    IF Len(rollups) = 0 THEN EmptySummary
    ELSE LET revenue == SumSeq(SeqMap(RevenueOf, rollups))
             expenses == SumSeq(SeqMap(ExpensesOf, rollups))
             netCashFlow == revenue - expenses
             transactionCount == SumSeq(SeqMap(TransactionCountOf, rollups))
         IN  [ startMonth |-> Some(rollups[1].month),
               endMonth |-> Some(rollups[Len(rollups)].month),
               monthCount |-> Len(rollups),
               transactionCount |-> transactionCount,
               revenue |-> round2(revenue, 1),
               expenses |-> round2(expenses, 1),
               netCashFlow |-> round2(netCashFlow, 1),
               savingsRate |-> IF GtEpsilon(revenue)
                               THEN round2(netCashFlow * 100 * CentsPerUnit, revenue)
                               ELSE round2(0, 1) ]
selectTrailingRollups_Leading(monthlyRollups, count) ==
    IF count <= 0 THEN <<>>
    ELSE IF Len(monthlyRollups) <= count THEN monthlyRollups
    ELSE SubSeq(monthlyRollups, 1, count)

selectTrailingRollups(monthlyRollups, count) ==
    IF count <= 0 THEN <<>> ELSE SliceLast(monthlyRollups, count)

\* Mutant: the prior block is filled with whatever precedes the current block
selectPriorTrailingBlock_Partial(monthlyRollups, count) ==
    IF count <= 0 THEN <<>>
    ELSE LET endExclusive == Max(Len(monthlyRollups) - count, 0)
             start == Max(endExclusive - count, 0)
         IN  Slice(monthlyRollups, start, endExclusive)

\* Mutant: the all-or-nothing test compares with count instead of count * 2
selectPriorTrailingBlock_SingleCount(monthlyRollups, count) ==
    IF count <= 0 THEN <<>>
    ELSE IF Len(monthlyRollups) <= count THEN <<>>
    ELSE LET endExclusive == Len(monthlyRollups) - count
             start == Max(endExclusive - count, 0)
         IN  Slice(monthlyRollups, start, endExclusive)

selectPriorTrailingBlock(monthlyRollups, count) ==
    IF count <= 0 THEN <<>>
    ELSE IF Len(monthlyRollups) < count * 2 THEN <<>>
    ELSE LET endExclusive == Len(monthlyRollups) - count
             start == endExclusive - count
         IN  Slice(monthlyRollups, start, endExclusive)

RECURSIVE FilterYtd(_, _, _)
FilterYtd(monthlyRollups, year, throughMonth) ==
    IF monthlyRollups = <<>> THEN <<>>
    ELSE LET parsed == parseMonthParts(Head(monthlyRollups).month)
             keep == parsed # Null /\ parsed[1].year = year /\ parsed[1].month <= throughMonth
             rest == FilterYtd(Tail(monthlyRollups), year, throughMonth)
         IN  IF keep THEN <<Head(monthlyRollups)>> \o rest ELSE rest
selectYtdRollupsForYear_WholeYear(monthlyRollups, year, throughMonth) ==
    FilterYtd(monthlyRollups, year, 12)

selectYtdRollupsForYear(monthlyRollups, year, throughMonth) ==
    FilterYtd(monthlyRollups, year, throughMonth)

selectRollupsForTimeframe(monthlyRollups, timeframe) ==
    IF Len(monthlyRollups) = 0 THEN <<>>
    ELSE IF timeframe = "allDates" THEN monthlyRollups
    ELSE IF timeframe = "thisMonth" THEN selectTrailingRollups(monthlyRollups, 1)
    ELSE IF timeframe = "lastMonth"
         THEN IF Len(monthlyRollups) > 1
              THEN <<monthlyRollups[Len(monthlyRollups) - 1]>> ELSE <<>>
    ELSE IF timeframe = "last3Months" THEN selectTrailingRollups(monthlyRollups, 3)
    ELSE IF timeframe = "last12Months" THEN selectTrailingRollups(monthlyRollups, 12)
    ELSE IF timeframe = "last24Months" THEN selectTrailingRollups(monthlyRollups, 24)
    ELSE IF timeframe = "last36Months" THEN selectTrailingRollups(monthlyRollups, 36)
    ELSE LET parsedLatest == parseMonthParts(monthlyRollups[Len(monthlyRollups)].month)
         IN  IF parsedLatest = Null THEN selectTrailingRollups(monthlyRollups, 1)
             ELSE selectYtdRollupsForYear(monthlyRollups, parsedLatest[1].year,
                                          parsedLatest[1].month)

aggregateRollups(timeframe, rollups) ==
    LET summary == summarizeRollups(rollups)
    IN  [ timeframe |-> timeframe,
          startMonth |-> summary.startMonth,
          endMonth |-> summary.endMonth,
          monthCount |-> summary.monthCount,
          transactionCount |-> summary.transactionCount,
          revenue |-> summary.revenue,
          expenses |-> summary.expenses,
          netCashFlow |-> summary.netCashFlow,
          savingsRate |-> summary.savingsRate ]

computeKpiAggregations(monthlyRollups) ==
    [ timeframe \in Range(KPI_TIMEFRAMES) |->
        aggregateRollups(timeframe, selectRollupsForTimeframe(monthlyRollups, timeframe)) ]

TrailingBlocks(monthlyRollups, count) ==
    [ current |-> selectTrailingRollups(monthlyRollups, count),
      previous |-> selectPriorTrailingBlock(monthlyRollups, count) ]

selectComparisonBlocks(monthlyRollups, timeframe) ==
    IF Len(monthlyRollups) = 0 THEN [ current |-> <<>>, previous |-> <<>> ]
    ELSE IF timeframe = "thisMonth" THEN TrailingBlocks(monthlyRollups, 1)
    ELSE IF timeframe = "last3Months" THEN TrailingBlocks(monthlyRollups, 3)
    ELSE IF timeframe = "ttm" THEN TrailingBlocks(monthlyRollups, 12)
    ELSE IF timeframe = "last24Months" THEN TrailingBlocks(monthlyRollups, 24)
    ELSE IF timeframe = "last36Months" THEN TrailingBlocks(monthlyRollups, 36)
    ELSE LET parsedLatest == parseMonthParts(monthlyRollups[Len(monthlyRollups)].month)
         IN  IF parsedLatest = Null THEN TrailingBlocks(monthlyRollups, 1)
             ELSE [ current |-> selectYtdRollupsForYear(monthlyRollups,
                                    parsedLatest[1].year, parsedLatest[1].month),
                    previous |-> selectYtdRollupsForYear(monthlyRollups,
                                    parsedLatest[1].year - 1, parsedLatest[1].month) ]
compareMetric_RatioOfPrevious(current, previous) ==
    [ current |-> round2(current, 1),
      previous |-> round2(previous, 1),
      delta |-> round2(current - previous, 1),
      percentChange |-> IF AbsLeEpsilon(previous) THEN Null
                        ELSE Some(Rat(current * 100, Abs(previous))) ]

compareMetric(current, previous) ==
    [ current |-> round2(current, 1),
      previous |-> round2(previous, 1),
      delta |-> round2(current - previous, 1),
      percentChange |-> pctDelta(current, previous) ]

buildTimeframeComparison(timeframe, currentSummary, previousSummary) ==
    [ timeframe |-> timeframe,
      currentStartMonth |-> currentSummary.startMonth,
      currentEndMonth |-> currentSummary.endMonth,
      previousStartMonth |-> previousSummary.startMonth,
      previousEndMonth |-> previousSummary.endMonth,
      currentMonthCount |-> currentSummary.monthCount,
      previousMonthCount |-> previousSummary.monthCount,
      revenue |-> compareMetric(currentSummary.revenue, previousSummary.revenue),
      expenses |-> compareMetric(currentSummary.expenses, previousSummary.expenses),
      netCashFlow |-> compareMetric(currentSummary.netCashFlow, previousSummary.netCashFlow),
      savingsRate |-> compareMetric(currentSummary.savingsRate, previousSummary.savingsRate) ]

\* Each current block compared with itself
SelfComparisons(monthlyRollups) ==
    [ timeframe \in Range(KPI_COMPARISON_TIMEFRAMES) |->
        buildTimeframeComparison(timeframe,
            summarizeRollups(selectComparisonBlocks(monthlyRollups, timeframe).current),
            summarizeRollups(selectComparisonBlocks(monthlyRollups, timeframe).current)) ]

computeKpiComparisons(monthlyRollups) ==
    [ timeframe \in Range(KPI_COMPARISON_TIMEFRAMES) |->
        LET blocks == selectComparisonBlocks(monthlyRollups, timeframe)
        IN  buildTimeframeComparison(timeframe, summarizeRollups(blocks.current),
                                     summarizeRollups(blocks.previous)) ]

\* A month range as formatMonthRangeStable composes it: 'n/a', one month label,
\* or a pair of labels; a label is the month key it is rendered from.
formatMonthRangeStable(startMonth, endMonth) ==
    IF startMonth = Null \/ endMonth = Null THEN <<"n/a">>
    ELSE IF startMonth = endMonth THEN <<startMonth[1]>>
    ELSE <<startMonth[1], endMonth[1]>>

\* The header label of each comparison timeframe, as the parts the template joins
computeKpiHeaderLabels(comparisons) ==
    [ timeframe \in Range(KPI_COMPARISON_TIMEFRAMES) |->
        LET item == comparisons[timeframe]
            currentRange == formatMonthRangeStable(item.currentStartMonth, item.currentEndMonth)
            previousRange == formatMonthRangeStable(item.previousStartMonth, item.previousEndMonth)
            currentEnd == IF item.currentEndMonth # Null THEN <<item.currentEndMonth[1]>> ELSE <<"n/a">>
            previousEnd == IF item.previousEndMonth # Null THEN <<item.previousEndMonth[1]>> ELSE <<"n/a">>
        IN  IF timeframe = "ytd"
            THEN [ form |-> "YTD through", current |-> currentEnd, previous |-> previousEnd ]
            ELSE IF timeframe = "ttm"
            THEN [ form |-> "Last 12 Months through", current |-> currentEnd, previous |-> <<"prior 12 Months">> ]
            ELSE [ form |-> "range vs range", current |-> currentRange, previous |-> previousRange ] ]

-----------------------------------------------------------------------------
(* Trajectory Signal Engine *)

TRAJECTORY_SIGNALS ==
    << [ id |-> "monthlyTrend", timeframe |-> "thisMonth" ],
       [ id |-> "shortTermTrend", timeframe |-> "last3Months" ],
       [ id |-> "longTermTrend", timeframe |-> "ttm" ] >>

\* Mutant: direction and light follow the delta whatever the history
TrajectorySignal_DeltaOnly(signal, source) ==
    LET net == source.netCashFlow
        hasSufficientHistory == source.currentMonthCount > 0 /\ source.previousMonthCount > 0
        direction == trendFromDelta(net.delta)
    IN  [ id |-> signal.id, timeframe |-> signal.timeframe,
          currentStartMonth |-> source.currentStartMonth,
          currentEndMonth |-> source.currentEndMonth,
          previousStartMonth |-> source.previousStartMonth,
          previousEndMonth |-> source.previousEndMonth,
          currentMonthCount |-> source.currentMonthCount,
          previousMonthCount |-> source.previousMonthCount,
          currentNetCashFlow |-> round2(net.current, 1),
          previousNetCashFlow |-> round2(net.previous, 1),
          delta |-> round2(net.delta, 1),
          percentChange |-> IF hasSufficientHistory THEN net.percentChange ELSE Null,
          direction |-> direction,
          light |-> IF direction = "up" THEN "green"
                    ELSE IF direction = "down" THEN "red" ELSE "neutral",
          hasSufficientHistory |-> hasSufficientHistory ]

\* The body of TRAJECTORY_SIGNALS.map for a source comparison that is present
TrajectorySignal(signal, source) ==
    LET net == source.netCashFlow
        hasSufficientHistory == source.currentMonthCount > 0 /\ source.previousMonthCount > 0
        direction == IF hasSufficientHistory THEN trendFromDelta(net.delta) ELSE "flat"
    IN  [ id |-> signal.id, timeframe |-> signal.timeframe,
          currentStartMonth |-> source.currentStartMonth,
          currentEndMonth |-> source.currentEndMonth,
          previousStartMonth |-> source.previousStartMonth,
          previousEndMonth |-> source.previousEndMonth,
          currentMonthCount |-> source.currentMonthCount,
          previousMonthCount |-> source.previousMonthCount,
          currentNetCashFlow |-> round2(net.current, 1),
          previousNetCashFlow |-> round2(net.previous, 1),
          delta |-> round2(net.delta, 1),
          percentChange |-> IF hasSufficientHistory THEN net.percentChange ELSE Null,
          direction |-> direction,
          light |-> IF ~hasSufficientHistory THEN "neutral"
                    ELSE IF direction = "up" THEN "green"
                    ELSE IF direction = "down" THEN "red" ELSE "neutral",
          hasSufficientHistory |-> hasSufficientHistory ]

computeTrajectorySignals(comparisons) ==
    [ i \in 1..Len(TRAJECTORY_SIGNALS) |->
        TrajectorySignal(TRAJECTORY_SIGNALS[i], comparisons[TRAJECTORY_SIGNALS[i].timeframe]) ]

-----------------------------------------------------------------------------
(* KPI cards and Category/Payee Analytics *)

KpiCard(id, format, current, previous) ==
    [ id |-> id, format |-> format,
      value |-> round2(current, 1),
      previousValue |-> round2(previous, 1),
      deltaPercent |-> pctDelta(current, previous),
      trend |-> trendFromDelta(current - previous) ]

\* Mutant: the savings-rate card is left out
buildKpis_NoSavingsRate(current, previous) ==
    << KpiCard("income", "currency", current.revenue, previous.revenue),
       KpiCard("expense", "currency", current.expenses, previous.expenses),
       KpiCard("net", "currency", current.netCashFlow, previous.netCashFlow) >>

buildKpis(current, previous) ==
    << KpiCard("income", "currency", current.revenue, previous.revenue),
       KpiCard("expense", "currency", current.expenses, previous.expenses),
       KpiCard("net", "currency", current.netCashFlow, previous.netCashFlow),
       KpiCard("savingsRate", "percent", current.savingsRate, previous.savingsRate) >>

\* Index of the entry with this key in an insertion-ordered Map, 0 when absent
KeyIndex(entries, key) ==
    IF \E i \in 1..Len(entries) : entries[i].key = key
    THEN CHOOSE i \in 1..Len(entries) : entries[i].key = key
    ELSE 0

RECURSIVE CategoryTotalsFold(_, _)
CategoryTotalsFold(totals, list) ==
    IF list = <<>> THEN totals
    ELSE LET txn == Head(list)
             i == KeyIndex(totals, txn.category)
         IN  IF txn.type # "expense" THEN CategoryTotalsFold(totals, Tail(list))
             ELSE IF i = 0
             THEN CategoryTotalsFold(Append(totals, [key |-> txn.category, value |-> txn.amount]),
                                     Tail(list))
             ELSE CategoryTotalsFold([totals EXCEPT ![i].value = @ + txn.amount], Tail(list))

\* Map<category, total> of the expense transactions, in insertion order
categoryTotals(list) == CategoryTotalsFold(<<>>, list)

RECURSIVE InsertDescending(_, _)
\* Insert a [rank, item] pair after every pair of rank >= its own
InsertDescending(sorted, pair) ==
    IF sorted = <<>> THEN <<pair>>
    ELSE IF Head(sorted).rank >= pair.rank
         THEN <<Head(sorted)>> \o InsertDescending(Tail(sorted), pair)
         ELSE <<pair>> \o sorted

RECURSIVE SortDescendingFold(_, _)
SortDescendingFold(sorted, rest) ==
    IF rest = <<>> THEN sorted
    ELSE SortDescendingFold(InsertDescending(sorted, Head(rest)), Tail(rest))

\* Array.prototype.sort((a, b) => rank(b) - rank(a)) on [rank, item] pairs (stable)
SortDescending(pairs) == SortDescendingFold(<<>>, pairs)

ItemOf(pair) == pair.item

\* Array.prototype.slice(0, count)
SliceFirst(s, count) == IF Len(s) <= count THEN s ELSE SubSeq(s, 1, count)

FilterMonth(list, month) == SelectSeq(list, LAMBDA txn : txn.month = month)

EXPENSE_COLORS_LENGTH == 7

buildExpenseSlices(latestMonthTxns) ==
    LET totals == categoryTotals(latestMonthTxns)
        entries == SeqMap(ItemOf,
                     SortDescending([i \in 1..Len(totals) |->
                                        [rank |-> totals[i].value, item |-> totals[i]]]))
        top == SliceFirst(entries, 7)
        totalExpense == SumSeq([i \in 1..Len(top) |-> top[i].value])
    IN  [ i \in 1..Len(top) |->
            [ name |-> top[i].key,
              value |-> round2(top[i].value, 1),
              share |-> IF GtEpsilon(totalExpense) THEN Rat(top[i].value, totalExpense)
                        ELSE <<0, 1>>,
              color |-> ((i - 1) % EXPENSE_COLORS_LENGTH) + 1 ] ]

\* txn.payee?.trim() || 'Unknown' (a missing payee is the empty string)
PayeeName(txn) == IF txn.payee = "" THEN "Unknown" ELSE txn.payee

RECURSIVE TopPayeesFold(_, _)
TopPayeesFold(map, list) ==
    IF list = <<>> THEN map
    ELSE LET txn == Head(list)
             i == KeyIndex(map, PayeeName(txn))
         IN  IF txn.type # "expense" THEN TopPayeesFold(map, Tail(list))
             ELSE IF i = 0
             THEN TopPayeesFold(Append(map, [key |-> PayeeName(txn), amount |-> txn.amount,
                                             transactionCount |-> 1]), Tail(list))
             ELSE TopPayeesFold([map EXCEPT ![i].amount = @ + txn.amount,
                                            ![i].transactionCount = @ + 1], Tail(list))

buildTopPayees(latestMonthTxns) ==
    LET map == TopPayeesFold(<<>>, latestMonthTxns)
        sorted == SeqMap(ItemOf,
                    SortDescending([i \in 1..Len(map) |-> [rank |-> map[i].amount, item |-> map[i]]]))
        top == SliceFirst(sorted, 8)
    IN  [ i \in 1..Len(top) |->
            [ payee |-> top[i].key, amount |-> round2(top[i].amount, 1),
              transactionCount |-> top[i].transactionCount ] ]

\* Map.get(category) ?? 0
TotalOf(totals, category) ==
    IF KeyIndex(totals, category) = 0 THEN 0 ELSE totals[KeyIndex(totals, category)].value
\* Mutant: movers ordered by the signed delta instead of its absolute value
buildMovers_SignedOrder(currentMonthTxns, previousMonthTxns) ==
    LET currentTotals == categoryTotals(currentMonthTxns)
        previousTotals == categoryTotals(previousMonthTxns)
        currentKeys == [i \in 1..Len(currentTotals) |-> currentTotals[i].key]
        previousKeys == [i \in 1..Len(previousTotals) |-> previousTotals[i].key]
        categories == currentKeys \o
                      SelectSeq(previousKeys, LAMBDA k : KeyIndex(currentTotals, k) = 0)
        Mover(category) ==
            LET current == round2(TotalOf(currentTotals, category), 1)
                previous == round2(TotalOf(previousTotals, category), 1)
            IN  [ category |-> category, current |-> current, previous |-> previous,
                  delta |-> round2(current - previous, 1),
                  deltaPercent |-> pctDelta(current, previous) ]
        movers == [i \in 1..Len(categories) |-> Mover(categories[i])]
    IN  SliceFirst(SeqMap(ItemOf,
                     SortDescending([i \in 1..Len(movers) |->
                                        [rank |-> movers[i].delta, item |-> movers[i]]])), 8)

buildMovers(currentMonthTxns, previousMonthTxns) ==
    LET currentTotals == categoryTotals(currentMonthTxns)
        previousTotals == categoryTotals(previousMonthTxns)
        currentKeys == [i \in 1..Len(currentTotals) |-> currentTotals[i].key]
        previousKeys == [i \in 1..Len(previousTotals) |-> previousTotals[i].key]
        categories == currentKeys \o
                      SelectSeq(previousKeys, LAMBDA k : KeyIndex(currentTotals, k) = 0)
        Mover(category) ==
            LET current == round2(TotalOf(currentTotals, category), 1)
                previous == round2(TotalOf(previousTotals, category), 1)
            IN  [ category |-> category, current |-> current, previous |-> previous,
                  delta |-> round2(current - previous, 1),
                  deltaPercent |-> pctDelta(current, previous) ]
        movers == [i \in 1..Len(categories) |-> Mover(categories[i])]
    IN  SliceFirst(SeqMap(ItemOf,
                     SortDescending([i \in 1..Len(movers) |->
                                        [rank |-> Abs(movers[i].delta), item |-> movers[i]]])), 8)
\* Mutant: the baseline over every earlier rollup month, without slice(-3)
baselineForCategory_AllPriorMonths(monthlyRollups, list, category, excludeMonth) ==
    LET months == SelectSeq([i \in 1..Len(monthlyRollups) |-> monthlyRollups[i].month],
                            LAMBDA m : StrLess(m, excludeMonth))
        counted == SelectSeq(list, LAMBDA txn :
                      /\ txn.type = "expense"
                      /\ txn.category = category
                      /\ \E i \in 1..Len(months) : months[i] = txn.month)
    IN  IF Len(months) = 0 THEN <<0, 1>>
        ELSE <<SumSeq([i \in 1..Len(counted) |-> counted[i].amount]), Len(months)>>

\* The mean, as the exact pair <<total, months>>, of the category's expense totals
\* over the up-to-3 rollup months before excludeMonth (<<0, 1>> when there is none)
baselineForCategory(monthlyRollups, list, category, excludeMonth) ==
    LET months == SelectSeq([i \in 1..Len(monthlyRollups) |-> monthlyRollups[i].month],
                            LAMBDA m : StrLess(m, excludeMonth))
        recentMonths == SliceLast(months, 3)
        counted == SelectSeq(list, LAMBDA txn :
                      /\ txn.type = "expense"
                      /\ txn.category = category
                      /\ \E i \in 1..Len(recentMonths) : recentMonths[i] = txn.month)
    IN  IF Len(recentMonths) = 0 THEN <<0, 1>>
        ELSE <<SumSeq([i \in 1..Len(counted) |-> counted[i].amount]), Len(recentMonths)>>

OverrunThresholdUnits == 50
FallbackSavingsPercent == 3

buildOpportunities(latestMonthTxns, monthlyRollups, allTxns) ==
    IF latestMonthTxns = <<>> THEN <<>>
    ELSE
    LET latestMonth == latestMonthTxns[1].month
        totals == categoryTotals(latestMonthTxns)
        \* overrun = currentTotal - baseline, as the exact pair <<numerator, months>>
        Overrun(entry) ==
            LET baseline == baselineForCategory(monthlyRollups, allTxns, entry.key, latestMonth)
            IN  <<entry.value * baseline[2] - baseline[1], baseline[2]>>
        qualifying == SelectSeq(totals, LAMBDA entry :
                         Overrun(entry)[1] > OverrunThresholdUnits * CentsPerUnit * Overrun(entry)[2])
        candidates == [i \in 1..Len(qualifying) |->
                         [ title |-> <<"Control", qualifying[i].key>>,
                           savings |-> round2(Overrun(qualifying[i])[1], Overrun(qualifying[i])[2]),
                           hint |-> round2(Overrun(qualifying[i])[1], Overrun(qualifying[i])[2]) ]]
        expenseTxns == SelectSeq(latestMonthTxns, LAMBDA txn : txn.type = "expense")
        fallbackSavings ==
            round2(SumSeq([i \in 1..Len(expenseTxns) |-> expenseTxns[i].amount])
                     * FallbackSavingsPercent, 100)
    IN  IF Len(candidates) = 0
        THEN << [ title |-> <<"Tighten discretionary spend">>,
                  savings |-> fallbackSavings,
                  hint |-> FallbackSavingsPercent ] >>
        ELSE SliceFirst(SeqMap(ItemOf,
                          SortDescending([i \in 1..Len(candidates) |->
                                            [rank |-> candidates[i].savings, item |-> candidates[i]]])), 8)

-----------------------------------------------------------------------------
(* Trend model and cash-flow forecast.  The statistics are exact rationals   *)
(* <<numerator, denominator>> in the code's own units (currency units, not  *)
(* cents), so the code's thresholds apply as written.                       *)

RInt(x) == <<x, 1>>
\* The operations divide by common factors before they multiply, to keep the
\* intermediate products small; the values are those of the plain formulas.
RAdd(a, b) ==
    IF b[1] = 0 THEN a
    ELSE IF a[1] = 0 THEN b
    ELSE
    LET g == GCD(a[2], b[2])
    IN  Rat(a[1] * (b[2] \div g) + b[1] * (a[2] \div g), (a[2] \div g) * b[2])
RSub(a, b) ==
    IF b[1] = 0 THEN a
    ELSE
    LET g == GCD(a[2], b[2])
    IN  Rat(a[1] * (b[2] \div g) - b[1] * (a[2] \div g), (a[2] \div g) * b[2])
RMul(a, b) ==
    IF b[1] = 0 \/ a[1] = 0 THEN <<0, 1>>
    ELSE
    LET g == GCD(Abs(a[1]), b[2])
        h == GCD(Abs(b[1]), a[2])
    IN  Rat((a[1] \div g) * (b[1] \div h), (a[2] \div h) * (b[2] \div g))
RDiv(a, b) == RMul(a, IF b[1] < 0 THEN <<0 - b[2], 0 - b[1]>> ELSE <<b[2], b[1]>>)
RAbs(a) == <<Abs(a[1]), a[2]>>
RLe(a, b) == a[1] * (b[2] \div GCD(a[2], b[2])) <= b[1] * (a[2] \div GCD(a[2], b[2]))
RLt(a, b) == a[1] * (b[2] \div GCD(a[2], b[2])) < b[1] * (a[2] \div GCD(a[2], b[2]))
RMax(a, b) == IF RLe(b, a) THEN a ELSE b

RECURSIVE RSum(_)
RSum(s) == IF s = <<>> THEN RInt(0) ELSE RAdd(Head(s), RSum(Tail(s)))

EPSILON == <<1, EpsilonInverse>>

\* a <= EPSILON and a <= EPSILON ** 2 for a >= 0, without the product a[1] * 10^5
RLeEpsilon(a) == a[1] <= a[2] \div EpsilonInverse
RLeEpsilonSquared(a) == a[1] <= (a[2] \div EpsilonInverse) \div EpsilonInverse

\* A whole-cent amount as a rational number of currency units
Units(cents) == Rat(cents, CentsPerUnit)

\* round2 of a rational number of currency units, as whole cents
round2Units(q) == round2(q[1] * CentsPerUnit, q[2])

average(values) ==
    IF Len(values) = 0 THEN RInt(0) ELSE RDiv(RSum(values), RInt(Len(values)))

averageMonthOverMonthDelta(values) ==
    IF Len(values) < 2 THEN RInt(0)
    ELSE RDiv(RSum([i \in 1..(Len(values) - 1) |-> RSub(values[i + 1], values[i])]),
              RInt(Len(values) - 1))

\* rSquared and the result record, once slope and intercept are known
RegressionResult(values, yMean, slope, intercept) ==
    LET n == Len(values)
        \* index runs over 0..n-1 in the code, values[index] is values[index + 1] here
        fitted(index) == RAdd(intercept, RMul(slope, RInt(index)))
        ssRes == RSum([k \in 1..n |->
                    RMul(RSub(values[k], fitted(k - 1)), RSub(values[k], fitted(k - 1)))])
        ssTot == RSum([k \in 1..n |->
                    RMul(RSub(values[k], yMean), RSub(values[k], yMean))])
        rSquared == IF RLeEpsilon(RAbs(ssTot)) THEN RInt(0)
                    ELSE RMax(RInt(0), RSub(RInt(1), RDiv(ssRes, ssTot)))
    IN  [ slope |-> slope, intercept |-> intercept, rSquared |-> rSquared ]

\* intercept = yMean - slope * xMean
RegressionIntercept(values, xMean, yMean, slope) ==
    RegressionResult(values, yMean, slope, RSub(yMean, RMul(slope, xMean)))

\* slope = numerator / denominator, 0 when the denominator vanishes
RegressionSlope(values, xMean, yMean) ==
    LET n == Len(values)
        xDelta(index) == RSub(RInt(index), xMean)
        numerator == RSum([k \in 1..n |-> RMul(xDelta(k - 1), RSub(values[k], yMean))])
        denominator == RSum([k \in 1..n |-> RMul(xDelta(k - 1), xDelta(k - 1))])
    IN  RegressionIntercept(values, xMean, yMean,
            IF RLeEpsilon(RAbs(denominator)) THEN RInt(0)
            ELSE RDiv(numerator, denominator))

linearRegression(values) ==
    IF Len(values) = 0
    THEN [ slope |-> RInt(0), intercept |-> RInt(0), rSquared |-> RInt(0) ]
    ELSE RegressionSlope(values, Rat(Len(values) - 1, 2), average(values))

RECURSIVE RMaxOf(_)
RMaxOf(s) == IF Len(s) = 1 THEN s[1] ELSE RMax(s[1], RMaxOf(Tail(s)))

RECURSIVE RMinOf(_)
RMinOf(s) ==
    IF Len(s) = 1 THEN s[1]
    ELSE LET m == RMinOf(Tail(s)) IN IF RLe(s[1], m) THEN s[1] ELSE m
\* Mutant: a trend is trusted without the test on the number of values
TrendModelOf_NoMinimumLength(values, rollingWindow, rollingBaseline, regression) ==
    LET valueRange == IF Len(values) > 0 THEN RSub(RMaxOf(values), RMinOf(values)) ELSE RInt(0)
        minSlopeThreshold ==
            RMax(RMax(RMul(valueRange, <<3, 100>>), RMul(RAbs(rollingBaseline), <<5, 1000>>)),
                 RInt(1))
        hasConfidentTrend ==
            /\ RLe(<<35, 100>>, regression.rSquared)
            /\ RLe(minSlopeThreshold, RAbs(regression.slope))
    IN  IF hasConfidentTrend
        THEN [ method |-> "linear-trend", n |-> Len(values),
               slope |-> regression.slope, intercept |-> regression.intercept,
               rollingWindow |-> rollingWindow, rollingBaseline |-> rollingBaseline ]
        ELSE [ method |-> "rolling-average", n |-> Len(values),
               slope |-> averageMonthOverMonthDelta(SliceLast(values, Max(2, Min(6, Len(values))))),
               rollingWindow |-> rollingWindow, rollingBaseline |-> rollingBaseline ]

\* The TrendModel, once the rolling baseline and the regression are known
TrendModelOf(values, rollingWindow, rollingBaseline, regression) ==
    LET valueRange == IF Len(values) > 0 THEN RSub(RMaxOf(values), RMinOf(values)) ELSE RInt(0)
        minSlopeThreshold ==
            RMax(RMax(RMul(valueRange, <<3, 100>>), RMul(RAbs(rollingBaseline), <<5, 1000>>)),
                 RInt(1))
        hasConfidentTrend ==
            /\ Len(values) >= 6
            /\ RLe(<<35, 100>>, regression.rSquared)
            /\ RLe(minSlopeThreshold, RAbs(regression.slope))
    IN  IF hasConfidentTrend
        THEN [ method |-> "linear-trend", n |-> Len(values),
               slope |-> regression.slope, intercept |-> regression.intercept,
               rollingWindow |-> rollingWindow, rollingBaseline |-> rollingBaseline ]
        ELSE [ method |-> "rolling-average", n |-> Len(values),
               slope |-> averageMonthOverMonthDelta(SliceLast(values, Max(2, Min(6, Len(values))))),
               rollingWindow |-> rollingWindow, rollingBaseline |-> rollingBaseline ]

\* The TrendModel of a series: its method and the numbers its closures capture
buildTrendModel(values) ==
    TrendModelOf(values, Max(1, Min(3, Len(values))),
                 average(SliceLast(values, Max(1, Min(3, Len(values))))),
                 linearRegression(values))

\* trendModel.fitAtIndex(index)
fitAtIndex(trendModel, index) ==
    IF trendModel.method = "linear-trend"
    THEN RAdd(trendModel.intercept, RMul(trendModel.slope, RInt(index)))
    ELSE trendModel.rollingBaseline

\* trendModel.projectAtOffset(offset)
projectAtOffset(trendModel, offset) ==
    IF trendModel.method = "linear-trend"
    THEN RAdd(trendModel.intercept, RMul(trendModel.slope, RInt(trendModel.n - 1 + offset)))
    ELSE trendModel.rollingBaseline

-----------------------------------------------------------------------------
(* Expense seasonality.  standardDeviation is a square root, so the model   *)
(* keeps the variance and compares squares.                                 *)

\* standardDeviation(values) ** 2
variance(values) ==
    IF Len(values) = 0 THEN RInt(0)
    ELSE LET mean == average(values)
         IN  RDiv(RSum([i \in 1..Len(values) |->
                          RMul(RSub(values[i], mean), RSub(values[i], mean))]),
                  RInt(Len(values)))

autocorrelation(values, lag) ==
    IF Len(values) <= lag \/ lag <= 0 THEN RInt(0)
    ELSE LET mean == average(values)
             numerator == RSum([k \in 1..(Len(values) - lag) |->
                             RMul(RSub(values[k + lag], mean), RSub(values[k], mean))])
             denominator == RSum([k \in 1..Len(values) |->
                             RMul(RSub(values[k], mean), RSub(values[k], mean))])
         IN  IF RLeEpsilon(RAbs(denominator)) THEN RInt(0)
             ELSE RDiv(numerator, denominator)

\* parseMonthParts(rollup.month)?.month ?? 0
MonthNumberOf(month) ==
    IF parseMonthParts(month) = Null THEN 0 ELSE parseMonthParts(month)[1].month

\* The residual of rollup k (1-based) against the trend fit
Residual(monthlyRollups, expenseTrendModel, k) ==
    RSub(Units(monthlyRollups[k].expenses), fitAtIndex(expenseTrendModel, k - 1))

\* groups.get(monthNumber): the residuals of the rollups of that calendar month
GroupOf(monthlyRollups, expenseTrendModel, monthNumber) ==
    LET members == SelectSeq([k \in 1..Len(monthlyRollups) |-> k],
                             LAMBDA k : MonthNumberOf(monthlyRollups[k].month) = monthNumber)
    IN  [j \in 1..Len(members) |-> Residual(monthlyRollups, expenseTrendModel, members[j])]

CenteredAdjustments_UnweightedMean(groups, raw) ==
    LET observed == SelectSeq([m \in 1..12 |-> m], LAMBDA m : Len(groups[m]) > 0)
        centeredOffset == IF Len(observed) > 0
                          THEN RDiv(RSum([j \in 1..Len(observed) |-> raw[observed[j]]]),
                                    RInt(Len(observed)))
                          ELSE RInt(0)
    IN  [m \in 1..12 |-> IF Len(groups[m]) > 0 THEN RSub(raw[m], centeredOffset) ELSE RInt(0)]

\* adjustmentsByMonth[1..12], re-centered by the weighted mean of the raw averages
CenteredAdjustments(groups, raw) ==
    LET weightedSum == RSum([m \in 1..12 |-> RMul(raw[m], RInt(Len(groups[m])))])
        weightedCount == SumSeq([m \in 1..12 |-> Len(groups[m])])
        centeredOffset == IF weightedCount > 0 THEN RDiv(weightedSum, RInt(weightedCount))
                          ELSE RInt(0)
    IN  [m \in 1..12 |-> IF Len(groups[m]) > 0 THEN RSub(raw[m], centeredOffset) ELSE RInt(0)]

\* The raw adjustment of a calendar month is the average of its residuals
RawAdjustments(groups) ==
    CenteredAdjustments(groups,
        [m \in 1..12 |-> IF Len(groups[m]) > 0 THEN average(groups[m]) ELSE RInt(0)])

\* adjustmentsByMonth[1..12] after re-centering
adjustmentsByMonth(monthlyRollups, expenseTrendModel) ==
    RawAdjustments([m \in 1..12 |-> GroupOf(monthlyRollups, expenseTrendModel, m)])

\* seasonalStrength >= 0.45, with standardDeviation(x) <= EPSILON read as
\* variance(x) <= EPSILON^2 and the ratio of deviations as a ratio of variances
StrengthAtLeastThreshold(residualVariance, seasonalVariance) ==
    /\ ~RLeEpsilonSquared(residualVariance)
    /\ RLe(RMul(<<45 * 45, 100 * 100>>, residualVariance), seasonalVariance)
\* Mutant: the verdict without the test on the month-of-year coverage
SeasonalityOf_NoCoverage(monthlyRollups, expenseTrendModel, adjustments) ==
    LET observed == SelectSeq([m \in 1..12 |-> m],
                      LAMBDA m : \E k \in 1..Len(monthlyRollups) :
                                    MonthNumberOf(monthlyRollups[k].month) = m)
        expenseValues == [k \in 1..Len(monthlyRollups) |-> Units(monthlyRollups[k].expenses)]
        adjustedResiduals ==
            [k \in 1..Len(monthlyRollups) |->
                LET monthNumber == MonthNumberOf(monthlyRollups[k].month)
                    seasonal == IF monthNumber >= 1 /\ monthNumber <= 12
                                THEN adjustments[monthNumber] ELSE RInt(0)
                IN  RSub(Residual(monthlyRollups, expenseTrendModel, k), seasonal)]
        seasonalValues == [j \in 1..Len(observed) |-> adjustments[observed[j]]]
        hasEnoughHistory == Len(monthlyRollups) >= 18
        hasSignal ==
            \/ StrengthAtLeastThreshold(variance(adjustedResiduals), variance(seasonalValues))
            \/ RLe(<<35, 100>>, autocorrelation(expenseValues, 12))
    IN  [ isConfident |-> hasEnoughHistory /\ hasSignal,
          adjustmentsByMonth |-> adjustments,
          uniqueMonths |-> Len(observed) ]

\* The verdict, once the monthly adjustments are known
SeasonalityOf(monthlyRollups, expenseTrendModel, adjustments) ==
    LET observed == SelectSeq([m \in 1..12 |-> m],
                      LAMBDA m : \E k \in 1..Len(monthlyRollups) :
                                    MonthNumberOf(monthlyRollups[k].month) = m)
        expenseValues == [k \in 1..Len(monthlyRollups) |-> Units(monthlyRollups[k].expenses)]
        adjustedResiduals ==
            [k \in 1..Len(monthlyRollups) |->
                LET monthNumber == MonthNumberOf(monthlyRollups[k].month)
                    seasonal == IF monthNumber >= 1 /\ monthNumber <= 12
                                THEN adjustments[monthNumber] ELSE RInt(0)
                IN  RSub(Residual(monthlyRollups, expenseTrendModel, k), seasonal)]
        seasonalValues == [j \in 1..Len(observed) |-> adjustments[observed[j]]]
        hasEnoughHistory == Len(monthlyRollups) >= 18
        hasCoverage == Len(observed) >= 10
        hasSignal ==
            \/ StrengthAtLeastThreshold(variance(adjustedResiduals), variance(seasonalValues))
            \/ RLe(<<35, 100>>, autocorrelation(expenseValues, 12))
    IN  [ isConfident |-> hasEnoughHistory /\ hasCoverage /\ hasSignal,
          adjustmentsByMonth |-> adjustments,
          uniqueMonths |-> Len(observed) ]

detectExpenseSeasonality(monthlyRollups, expenseTrendModel) ==
    SeasonalityOf(monthlyRollups, expenseTrendModel,
                  adjustmentsByMonth(monthlyRollups, expenseTrendModel))

\* The detection buildCashFlowForecastSeries runs on the expense trend of the
\* rollups; Null when there is no rollup and the series is returned empty
ExpenseSeasonalityOf(monthlyRollups) ==
    IF Len(monthlyRollups) = 0 THEN Null
    ELSE Some(detectExpenseSeasonality(monthlyRollups,
            buildTrendModel([k \in 1..Len(monthlyRollups) |-> Units(monthlyRollups[k].expenses)])))

ForecastPoint(month, revenue, expenses, netCashFlow, status) ==
    [ month |-> month, revenue |-> revenue, expenses |-> expenses,
      netCashFlow |-> netCashFlow, status |-> status ]
\* Mutant: the trend projection is floored at 0 before the seasonal adjustment is added
ProjectedRow_FloorBeforeSeason(latestMonth, revenueTrendModel, expenseTrendModel, expenseSeasonality, index) ==
    LET month == addMonths(latestMonth, index)
        monthNumber == MonthNumberOf(month)
        projectedRevenue ==
            round2Units(RMax(projectAtOffset(revenueTrendModel, index), RInt(0)))
        seasonalExpenseAdjustment ==
            IF expenseSeasonality.isConfident /\ monthNumber >= 1 /\ monthNumber <= 12
            THEN expenseSeasonality.adjustmentsByMonth[monthNumber]
            ELSE RInt(0)
        projectedExpenses ==
            round2Units(RAdd(RMax(projectAtOffset(expenseTrendModel, index), RInt(0)),
                             seasonalExpenseAdjustment))
    IN  ForecastPoint(month, projectedRevenue, projectedExpenses,
                      round2(projectedRevenue - projectedExpenses, 1), "projected")

\* The series of buildCashFlowForecastSeries (its model notes are display text)
\* The projected row at offset index
ProjectedRow(latestMonth, revenueTrendModel, expenseTrendModel, expenseSeasonality, index) ==
    LET month == addMonths(latestMonth, index)
        monthNumber == MonthNumberOf(month)
        projectedRevenue ==
            round2Units(RMax(projectAtOffset(revenueTrendModel, index), RInt(0)))
        seasonalExpenseAdjustment ==
            IF expenseSeasonality.isConfident /\ monthNumber >= 1 /\ monthNumber <= 12
            THEN expenseSeasonality.adjustmentsByMonth[monthNumber]
            ELSE RInt(0)
        projectedExpenses ==
            round2Units(RMax(RAdd(projectAtOffset(expenseTrendModel, index),
                                  seasonalExpenseAdjustment), RInt(0)))
    IN  ForecastPoint(month, projectedRevenue, projectedExpenses,
                      round2(projectedRevenue - projectedExpenses, 1), "projected")
ForecastSeriesOf_LoopFromZero(monthlyRollups, projectionMonths, revenueTrendModel, expenseTrendModel, expenseSeasonality) ==
    [k \in 1..Len(monthlyRollups) |->
        ForecastPoint(monthlyRollups[k].month, monthlyRollups[k].revenue,
                      monthlyRollups[k].expenses, monthlyRollups[k].netCashFlow, "actual")]
    \o [index \in 1..(projectionMonths + 1) |->
        ProjectedRow(monthlyRollups[Len(monthlyRollups)].month, revenueTrendModel,
                     expenseTrendModel, expenseSeasonality, index - 1)]

\* The series, once the trend models and the seasonality are known
ForecastSeriesOf(monthlyRollups, projectionMonths, revenueTrendModel, expenseTrendModel, expenseSeasonality) ==
    [k \in 1..Len(monthlyRollups) |->
        ForecastPoint(monthlyRollups[k].month, monthlyRollups[k].revenue,
                      monthlyRollups[k].expenses, monthlyRollups[k].netCashFlow, "actual")]
    \o [index \in 1..projectionMonths |->
        ProjectedRow(monthlyRollups[Len(monthlyRollups)].month, revenueTrendModel,
                     expenseTrendModel, expenseSeasonality, index)]

ForecastWithTrends(monthlyRollups, projectionMonths, revenueTrendModel, expenseTrendModel) ==
    ForecastSeriesOf(monthlyRollups, projectionMonths, revenueTrendModel, expenseTrendModel,
                     detectExpenseSeasonality(monthlyRollups, expenseTrendModel))

buildCashFlowForecastSeries(monthlyRollups, projectionMonths) ==
    IF Len(monthlyRollups) = 0 THEN <<>>
    ELSE ForecastWithTrends(monthlyRollups, projectionMonths,
            buildTrendModel([k \in 1..Len(monthlyRollups) |-> Units(monthlyRollups[k].revenue)]),
            buildTrendModel([k \in 1..Len(monthlyRollups) |-> Units(monthlyRollups[k].expenses)]))

-----------------------------------------------------------------------------
(* The dashboard model and the scenario projector *)

ProjectionHorizon == 36

TrendPoint(rollup) ==
    [ month |-> rollup.month, income |-> rollup.revenue,
      expense |-> rollup.expenses, net |-> rollup.netCashFlow ]

SavingsOf(item) == item.savings

\* The DashboardModel, without its display text (model notes, margin
\* justification, summary bullets) and the volatility margins.
\* The model of a non-empty rollup list, once its KPI maps and opportunities are known
DashboardModelOf(list, monthlyRollups, kpiAggregationByTimeframe, kpiComparisonByTimeframe, latestMonthTxns, previousMonthTxns, opportunities) ==
    [ latestMonth |-> monthlyRollups[Len(monthlyRollups)].month,
      previousMonth |-> IF Len(monthlyRollups) > 1
                        THEN Some(monthlyRollups[Len(monthlyRollups) - 1].month)
                        ELSE Null,
      monthlyRollups |-> monthlyRollups,
      kpiAggregationByTimeframe |-> kpiAggregationByTimeframe,
      kpiComparisonByTimeframe |-> kpiComparisonByTimeframe,
      kpiHeaderLabelByTimeframe |-> computeKpiHeaderLabels(kpiComparisonByTimeframe),
      trajectorySignals |-> computeTrajectorySignals(kpiComparisonByTimeframe),
      kpiCards |-> buildKpis(kpiAggregationByTimeframe["thisMonth"],
                             kpiAggregationByTimeframe["lastMonth"]),
      trend |-> SeqMap(TrendPoint, monthlyRollups),
      cashFlowForecastSeries |->
          buildCashFlowForecastSeries(monthlyRollups, ProjectionHorizon),
      expenseSlices |-> buildExpenseSlices(latestMonthTxns),
      topPayees |-> buildTopPayees(latestMonthTxns),
      movers |-> buildMovers(latestMonthTxns, previousMonthTxns),
      opportunityTotal |-> round2(SumSeq(SeqMap(SavingsOf, opportunities)), 1),
      opportunities |-> opportunities,
      digHerePreview |-> SliceFirst(opportunities, 4) ]

\* The latest and previous months' transactions and the opportunities drawn from them
DashboardModelFor(list, monthlyRollups, latestMonthTxns) ==
    DashboardModelOf(list, monthlyRollups,
        computeKpiAggregations(monthlyRollups),
        computeKpiComparisons(monthlyRollups),
        latestMonthTxns,
        IF Len(monthlyRollups) > 1
        THEN FilterMonth(list, monthlyRollups[Len(monthlyRollups) - 1].month)
        ELSE <<>>,
        buildOpportunities(latestMonthTxns, monthlyRollups, list))

\* The empty model, returned when there is no rollup
EmptyDashboardModel(emptyComparisons) ==
    [ latestMonth |-> <<>>,
      previousMonth |-> Null,
      monthlyRollups |-> <<>>,
      kpiAggregationByTimeframe |-> computeKpiAggregations(<<>>),
      kpiComparisonByTimeframe |-> emptyComparisons,
      kpiHeaderLabelByTimeframe |-> computeKpiHeaderLabels(emptyComparisons),
      trajectorySignals |-> computeTrajectorySignals(emptyComparisons),
      kpiCards |-> <<>>,
      trend |-> <<>>,
      cashFlowForecastSeries |-> <<>>,
      expenseSlices |-> <<>>,
      topPayees |-> <<>>,
      movers |-> <<>>,
      opportunityTotal |-> 0,
      opportunities |-> <<>>,
      digHerePreview |-> <<>> ]

ModelOfRollups(list, monthlyRollups) ==
    IF Len(monthlyRollups) = 0
    THEN EmptyDashboardModel(computeKpiComparisons(<<>>))
    ELSE DashboardModelFor(list, monthlyRollups,
            FilterMonth(list, monthlyRollups[Len(monthlyRollups)].month))

computeDashboardModel(list, mode) == ModelOfRollups(list, computeMonthlyRollups(list, mode))

RECURSIVE RPow(_, _)
\* base ** exponent for an integer exponent >= 0
RPow(base, exponent) ==
    IF exponent = 0 THEN RInt(1) ELSE RMul(base, RPow(base, exponent - 1))

RECURSIVE ScenarioLoop(_, _, _, _, _, _, _)
\* The for loop of projectScenario from index up to months, cumulativeNet carried
ScenarioLoop(latestMonth, baselineRevenue, baselineExpense, growthFactor, expenseFactor, index, carry) ==
    IF index > carry.months THEN carry.projections
    ELSE LET projectedIncome == round2Units(RMul(baselineRevenue, RPow(growthFactor, index)))
             projectedExpense == round2Units(RMul(baselineExpense, RPow(expenseFactor, index)))
             projectedNet == round2(projectedIncome - projectedExpense, 1)
             cumulativeNet == round2(carry.cumulativeNet + projectedNet, 1)
         IN  ScenarioLoop(latestMonth, baselineRevenue, baselineExpense, growthFactor,
                          expenseFactor, index + 1,
                          [ carry EXCEPT
                              !.cumulativeNet = cumulativeNet,
                              !.projections = Append(@,
                                  [ month |-> addMonths(latestMonth, index),
                                    projectedIncome |-> projectedIncome,
                                    projectedExpense |-> projectedExpense,
                                    projectedNet |-> projectedNet,
                                    cumulativeNet |-> cumulativeNet ]) ])

\* Mutant: the guard on an empty model is missing
projectScenario_Unguarded(dashboard, input) ==
    ScenarioLoop(dashboard.latestMonth, RInt(0), RInt(0),
                 Rat(100 + input.revenueGrowthPct, 100),
                 Rat(100 - input.expenseReductionPct, 100), 1,
                 [ months |-> input.months, cumulativeNet |-> 0, projections |-> <<>> ])

projectScenario(dashboard, input) ==
    IF dashboard.latestMonth = <<>> \/ Len(dashboard.monthlyRollups) = 0 THEN <<>>
    ELSE
    LET baselineMonths == SliceLast(dashboard.monthlyRollups, 3)
        baselineRevenue ==
            RDiv(RSum([k \in 1..Len(baselineMonths) |-> Units(baselineMonths[k].revenue)]),
                 RInt(Max(Len(baselineMonths), 1)))
        baselineExpense ==
            RDiv(RSum([k \in 1..Len(baselineMonths) |-> Units(baselineMonths[k].expenses)]),
                 RInt(Max(Len(baselineMonths), 1)))
        growthFactor == Rat(100 + input.revenueGrowthPct, 100)
        expenseFactor == Rat(100 - input.expenseReductionPct, 100)
    IN  ScenarioLoop(dashboard.latestMonth, baselineRevenue, baselineExpense,
                     growthFactor, expenseFactor, 1,
                     [ months |-> input.months, cumulativeNet |-> 0, projections |-> <<>> ])

-----------------------------------------------------------------------------
(* Inputs *)

IsoDate(year, month, day) == MonthKey(year, month) \o <<Dash>> \o padStart(DigitsOf(day), 2)

Sales == <<"Sales">>
Rent == <<"Rent">>
CapitalDistribution == <<"Capital", Space, "Distribution">>
OwnerCapitalDistribution == <<"Owner", Colon, Space, "Capital", "-", "Distribution">>
CapitalDistributions == <<"Capital", Space, "Distributions">>

\* The ledger rows handed to normalizeRecords: ISO and slash dates (two- and
\* three-digit years, a day that does not exist), amounts with a sign, parentheses,
\* a currency mark and a thousands separator, zero amounts, an amount without digits
SampleRecords ==
    { [ Date |-> IsoDate(2024, 1, 15), Amount |-> <<2, 0, 0, Dot, 0, 0>>,
        Category |-> Sales, Payee |-> "" ],
      [ Date |-> <<1, Slash, 2, 0, Slash, 2, 0, 2, 4>>, Amount |-> <<Dash, 1, 2, 0, Dot, 0, 0>>,
        Category |-> Rent, Payee |-> "Landlord" ],
      [ Date |-> <<2, Slash, 3, Slash, 2, 4>>, Amount |-> <<LParen, 4, 5, Dot, 5, 0, RParen>>,
        Category |-> <<>>, Payee |-> "" ],
      [ Date |-> <<1, 2, Slash, 3, 1, Slash, 9, 9>>,
        Amount |-> <<Dollar, 1, Comma, 2, 0, 0, Dot, 0, 0>>,
        Category |-> Sales, Payee |-> "" ],
      [ Date |-> IsoDate(2024, 3, 1), Amount |-> <<0, Dot, 0, 0>>,
        Category |-> Sales, Payee |-> "" ],
      [ Date |-> <<3, Slash, 5, Slash, 2, 0, 2, 4>>, Amount |-> <<LParen, 0, RParen>>,
        Category |-> Rent, Payee |-> "" ],
      [ Date |-> <<1, Slash, 5, Slash, 1, 2, 3>>, Amount |-> <<1, 0>>,
        Category |-> Sales, Payee |-> "" ],
      [ Date |-> <<2, Slash, 3, 0, Slash, 2, 0, 2, 4>>, Amount |-> <<5>>,
        Category |-> Sales, Payee |-> "" ],
      [ Date |-> IsoDate(2024, 4, 1), Amount |-> <<Dollar>>,
        Category |-> Sales, Payee |-> "" ] }

\* The transactions of the ledger rows the engine is fed (amounts in cents)
SampleTxns ==
    { toTransaction(IsoDate(2024, 1, 15), 20000, Sales, ""),
      toTransaction(IsoDate(2024, 1, 20), -12000, Rent, "Landlord"),
      toTransaction(IsoDate(2024, 1, 25), -7000, OwnerCapitalDistribution, ""),
      toTransaction(IsoDate(2023, 12, 10), 18000, Sales, ""),
      toTransaction(IsoDate(2023, 12, 12), -3000, CapitalDistribution, "Owner"),
      toTransaction(IsoDate(2023, 11, 7), -5500, CapitalDistributions, ""),
      toTransaction(IsoDate(99, 12, 5), 4000, Sales, "") }

\* The what-if inputs handed to projectScenario (ScenarioInput). The page keeps
\* months at 12 and moves the two percentages with sliders (revenue -10..20, expense
\* 0..20). Its default (4%, 3%, 12 months) needs (1.04)^12 as an exact fraction, which
\* does not fit 32-bit integers, so the inputs are both sliders at 0 over 12 months
\* and both sliders at 20 over a short horizon.
ScenarioInputs ==
    { [ revenueGrowthPct |-> 20, expenseReductionPct |-> 20, months |-> MaxScenarioMonths ],
      [ revenueGrowthPct |-> 0, expenseReductionPct |-> 0, months |-> 12 ] }

\* The transactions of one month of a long ledger, by profile
MonthProfiles == {"surplus", "deficit", "distribution"}

ProfileTxns(profile, year, month) ==
    CASE profile = "surplus" ->
            << toTransaction(IsoDate(year, month, 5), 1000, Sales, ""),
               toTransaction(IsoDate(year, month, 9), -600, Rent, "Landlord") >>
      [] profile = "deficit" ->
            << toTransaction(IsoDate(year, month, 5), 500, Sales, ""),
               toTransaction(IsoDate(year, month, 9), -900, Rent, "Landlord") >>
      [] profile = "distribution" ->
            << toTransaction(IsoDate(year, month, 9), -400, CapitalDistribution, "Owner") >>

-----------------------------------------------------------------------------
(* The engine as a state machine: the caller holds (txns, cashFlowMode,     *)
(* scenarioInput) and recomputes the model and the scenario on every change *)
\* The configured sheet URL and fallback URL the Dashboard imports
SHEET_CSV_URL == "https://sheet"
SHEET_CSV_FALLBACK_URL == "https://backup"

Init ==
    /\ txns = <<>>
    /\ cashFlowMode = "operating"
    /\ model = computeDashboardModel(<<>>, "operating")
    /\ scenarioInput \in ScenarioInputs
    /\ scenario = projectScenario(computeDashboardModel(<<>>, "operating"), scenarioInput)
    /\ wRollups = <<>>
    /\ wWindows = [ timeframe \in Range(KPI_TIMEFRAMES) |->
                      selectRollupsForTimeframe(<<>>, timeframe) ]
    /\ wBlocks = [ timeframe \in Range(KPI_COMPARISON_TIMEFRAMES) |->
                     selectComparisonBlocks(<<>>, timeframe) ]
    /\ wComparisons = computeKpiComparisons(<<>>)
    /\ wSelfComparisons = SelfComparisons(<<>>)
    /\ wSignals = computeTrajectorySignals(computeKpiComparisons(<<>>))
    /\ csvRecords = <<>>
    /\ dataSetTxns = normalizeRecords(<<>>)
    /\ fetchCall = [primaryUrl |-> "", fallbackUrl |-> ""]
    /\ fetchPc = "idle"
    /\ urls = <<>>
    /\ urlIndex = 1
    /\ lastError = Null
    /\ attempts = <<>>
    /\ fetchResult = Null
    /\ fetchThrown = Null
    /\ sRollups = <<>>
    /\ sSeasonality = ExpenseSeasonalityOf(<<>>)
    /\ aTxns = <<>>
    /\ aRollups = <<>>
    /\ aOpportunities = <<>>
    /\ aMovers = <<>>
    /\ fProfile = ""
    /\ fRollups = <<>>
    /\ fRevenueTrend = Null
    /\ fExpenseTrend = Null
    /\ fSeasonality = Null
    /\ fSeries = <<>>
    /\ csvUrl = SHEET_CSV_URL
    /\ dataSet = Null
    /\ syncError = Null
    /\ loading = FALSE
    /\ syncs = <<>>
    /\ activeTab = "big-picture"
    /\ availableMonths = <<>>
    /\ digHereFocusMonth = Null
    /\ digHereStartMonth = Null
    /\ digHereEndMonth = Null
    /\ digHereFocusContext = Null
    /\ isMonthPickerOpen = FALSE
    /\ monthPickerMode = "month"
    /\ monthPickerDraftMonth = <<>>
    /\ monthPickerDraftStart = <<>>
    /\ monthPickerDraftEnd = <<>>

\* A transaction joins the list: the whole model is recomputed
AddTxn(txn) ==
    /\ Len(txns) < MaxTxns
    /\ txns' = Append(txns, txn)
    /\ model' = computeDashboardModel(txns', cashFlowMode)
    /\ scenario' = projectScenario(model', scenarioInput)
    /\ UNCHANGED <<cashFlowMode, scenarioInput, windowVars, ingestVars, fetchVars, seasonVars, analyticsVars, forecastVars, syncVars, navVars>>

\* The cash-flow mode is switched: the whole model is recomputed
SetCashFlowMode(mode) ==
    /\ mode # cashFlowMode
    /\ cashFlowMode' = mode
    /\ model' = computeDashboardModel(txns, mode)
    /\ scenario' = projectScenario(model', scenarioInput)
    /\ UNCHANGED <<txns, scenarioInput, windowVars, ingestVars, fetchVars, seasonVars, analyticsVars, forecastVars, syncVars, navVars>>

\* The what-if input changes: the scenario is recomputed from the same model
SetScenarioInput(input) ==
    /\ input # scenarioInput
    /\ scenarioInput' = input
    /\ scenario' = projectScenario(model, input)
    /\ UNCHANGED <<txns, cashFlowMode, model, windowVars, ingestVars, fetchVars, seasonVars, analyticsVars, forecastVars, syncVars, navVars>>

Next ==
    \/ \E txn \in SampleTxns : AddTxn(txn)
    \/ \E mode \in {"operating", "total"} : SetCashFlowMode(mode)
    \/ \E input \in ScenarioInputs : SetScenarioInput(input)

Spec == Init /\ [][Next]_vars

-----------------------------------------------------------------------------
(* The window selector over long rollup lists: one more month of history    *)
(* arrives, and the comparison blocks, comparisons and signals are rebuilt. *)
(* The first SeedMonths months are chosen freely, later months reuse them.  *)

\* The rollup of the month at position index of the list (1-based)
WindowMonthRollup(profile, index) ==
    computeMonthlyRollups(
        ProfileTxns(profile, 2018 + ((index - 1) \div 12), ((index - 1) % 12) + 1),
        "operating")[1]

RebuildWindows(rollups) ==
    /\ wRollups' = rollups
    /\ wWindows' = [ timeframe \in Range(KPI_TIMEFRAMES) |->
                       selectRollupsForTimeframe(rollups, timeframe) ]
    /\ wBlocks' = [ timeframe \in Range(KPI_COMPARISON_TIMEFRAMES) |->
                      selectComparisonBlocks(rollups, timeframe) ]
    /\ wComparisons' = computeKpiComparisons(rollups)
    /\ wSelfComparisons' = SelfComparisons(rollups)
    /\ wSignals' = computeTrajectorySignals(wComparisons')

AppendSeedMonth(profile) ==
    /\ Len(wRollups) < SeedMonths
    /\ Len(wRollups) < MaxRollups
    /\ RebuildWindows(Append(wRollups, WindowMonthRollup(profile, Len(wRollups) + 1)))
    /\ UNCHANGED <<engineVars, ingestVars, fetchVars, seasonVars, analyticsVars, forecastVars, syncVars, navVars>>

AppendRepeatedMonth ==
    /\ Len(wRollups) >= SeedMonths
    /\ Len(wRollups) < MaxRollups
    /\ LET index == Len(wRollups) + 1
           \* the seed months come back in a drifting order, so that neighbouring
           \* blocks of 3, 12, 24 or 36 months do not add up to the same totals
           repeated == wRollups[((index + (index \div 5)) % SeedMonths) + 1]
           month == WindowMonthRollup("surplus", index).month
       IN  RebuildWindows(Append(wRollups, [repeated EXCEPT !.month = month]))
    /\ UNCHANGED <<engineVars, ingestVars, fetchVars, seasonVars, analyticsVars, forecastVars, syncVars, navVars>>

NextWindows ==
    \/ \E profile \in MonthProfiles : AppendSeedMonth(profile)
    \/ AppendRepeatedMonth

SpecWindows == Init /\ [][NextWindows]_vars

-----------------------------------------------------------------------------
(* Specification of the normalization layer: ledger records arrive one by *)
(* one and the whole list is normalized again.                            *)

\* A record joins the ledger: buildDataSet normalizes the records
IngestRecord(record) ==
    /\ Len(csvRecords) < MaxTxns
    /\ csvRecords' = Append(csvRecords, record)
    /\ dataSetTxns' = normalizeRecords(csvRecords')
    /\ UNCHANGED <<engineVars, windowVars, fetchVars, seasonVars, analyticsVars, forecastVars, syncVars, navVars>>

NextIngest == \E record \in SampleRecords : IngestRecord(record)

SpecIngest == Init /\ [][NextIngest]_vars

-----------------------------------------------------------------------------
(* Specification of the CSV adapter: one fetchSheetCsv call at a time, a  *)
(* step per request sent and per way a request ends.                      *)

\* The URLs a call is made with: the sheet, a backup, or none
PrimaryUrls == {"", "https://sheet", "https://backup"}
FallbackUrls == {"", "https://backup"}

\* The HTTP statuses of responses that are not ok
NotOkStatuses == {404, 500}

HeaderRow == <<"Date", "Amount", "Category">>
SalesRow == <<"2024-01-15", "200.00", "Sales">>
RentRow == <<"2024-01-20", "-120.00", "Rent">>

\* The rows of the response texts: empty, a header alone, a header and a blank row,
\* a header and data, a title row before the header, data without a header row
ResponseRows ==
    { <<>>,
      <<HeaderRow>>,
      <<HeaderRow, <<"", " ", "">>>>,
      <<HeaderRow, SalesRow>>,
      <<<<"Ledger">>, HeaderRow, SalesRow, <<" ">>, RentRow>>,
      <<SalesRow, RentRow>>,
      <<SalesRow>> }

\* fetchSheetCsv is called (by runSync, once the call before it has ended)
CallFetch(primaryUrl, fallbackUrl) ==
    /\ fetchPc \in {"idle", "returned", "thrown"}
    /\ fetchCall' = [primaryUrl |-> primaryUrl, fallbackUrl |-> fallbackUrl]
    /\ urls' = ConfiguredUrls(primaryUrl, fallbackUrl)
    /\ urlIndex' = 1
    /\ lastError' = Null
    /\ attempts' = <<>>
    /\ fetchResult' = Null
    /\ fetchThrown' = Null
    /\ fetchPc' = "loop"
    /\ UNCHANGED <<engineVars, windowVars, ingestVars, seasonVars, analyticsVars, forecastVars, syncVars, navVars>>

\* The loop takes the next URL and fetchCsvText sends the request
StartAttempt ==
    /\ fetchPc = "loop"
    /\ urlIndex <= Len(urls)
    /\ attempts' = Append(attempts, [url |-> urls[urlIndex], outcome |-> "pending",
                                     error |-> Null])
    /\ fetchPc' = "awaiting"
    /\ UNCHANGED <<fetchCall, urls, urlIndex, lastError, fetchResult, fetchThrown>>
    /\ UNCHANGED <<engineVars, windowVars, ingestVars, seasonVars, analyticsVars, forecastVars, syncVars, navVars>>

\* The catch block: the attempt has failed with error, the loop goes on
AttemptFailed(error) ==
    /\ lastError' = Some(error)
    /\ attempts' = [attempts EXCEPT ![Len(attempts)].outcome = "failed",
                                    ![Len(attempts)].error = Some(error)]
    /\ urlIndex' = urlIndex + 1
    /\ fetchPc' = "loop"
    /\ UNCHANGED <<fetchCall, urls, fetchResult, fetchThrown>>
    /\ UNCHANGED <<engineVars, windowVars, ingestVars, seasonVars, analyticsVars, forecastVars, syncVars, navVars>>

\* fetch (or reading the response text) rejects: a network error
FetchRejects ==
    /\ fetchPc = "awaiting"
    /\ AttemptFailed(FetchError("network", 0, urls[urlIndex]))

\* The response is not ok: fetchCsvText throws
ResponseNotOk(status) ==
    /\ fetchPc = "awaiting"
    /\ AttemptFailed(FetchError("status", status, urls[urlIndex]))

\* The response is ok and its text has no data row: the try block throws
ResponseWithoutRecords(rows) ==
    /\ fetchPc = "awaiting"
    /\ Len(rowsToRecords(rows)) = 0
    /\ AttemptFailed(FetchError("noDataRows", 0, urls[urlIndex]))

\* The response is ok and its text has data rows: the call returns
ResponseWithRecords(rows) ==
    /\ fetchPc = "awaiting"
    /\ Len(rowsToRecords(rows)) > 0
    /\ fetchResult' = Some([records |-> rowsToRecords(rows), sourceUrl |-> urls[urlIndex]])
    /\ attempts' = [attempts EXCEPT ![Len(attempts)].outcome = "succeeded"]
    /\ fetchPc' = "returned"
    /\ UNCHANGED <<fetchCall, urls, urlIndex, lastError, fetchThrown>>
    /\ UNCHANGED <<engineVars, windowVars, ingestVars, seasonVars, analyticsVars, forecastVars, syncVars, navVars>>

\* The loop is over: throw lastError ?? new Error('Failed to fetch CSV data')
ThrowLastError ==
    /\ fetchPc = "loop"
    /\ urlIndex > Len(urls)
    /\ fetchThrown' = Some(IF lastError = Null THEN FailedToFetchError ELSE lastError[1])
    /\ fetchPc' = "thrown"
    /\ UNCHANGED <<fetchCall, urls, urlIndex, lastError, attempts, fetchResult>>
    /\ UNCHANGED <<engineVars, windowVars, ingestVars, seasonVars, analyticsVars, forecastVars, syncVars, navVars>>

NextFetch ==
    \/ \E primaryUrl \in PrimaryUrls, fallbackUrl \in FallbackUrls :
            CallFetch(primaryUrl, fallbackUrl)
    \/ StartAttempt
    \/ FetchRejects
    \/ \E status \in NotOkStatuses : ResponseNotOk(status)
    \/ \E rows \in ResponseRows : ResponseWithoutRecords(rows)
    \/ \E rows \in ResponseRows : ResponseWithRecords(rows)
    \/ ThrowLastError

SpecFetch == Init /\ [][NextFetch]_vars

-----------------------------------------------------------------------------
(* Specification of the seasonality detection: a ledger with one expense  *)
(* a month grows by a later month, and the detection runs on its rollups. *)

\* The months of the ledger: three Januaries, a February and a March
SeasonalMonths ==
    { MonthKey(2023, 1), MonthKey(2023, 2), MonthKey(2024, 1), MonthKey(2024, 3),
      MonthKey(2025, 1) }

\* The expense of a month, in cents
SeasonalExpenses == {4000, 10000, 25000}

\* The rent of one month as a transaction
SeasonalTxn(month, expense) == toTransaction(month \o <<Dash, 0, 1>>, 0 - expense, Rent, "")

\* A later month joins the rollups (normalizeRecords keeps the ledger in date order)
AppendSeasonalMonth(month, expense) ==
    /\ Len(sRollups) < MaxSeasonalMonths
    /\ \A k \in 1..Len(sRollups) : StrLess(sRollups[k].month, month)
    /\ sRollups' = sRollups \o computeMonthlyRollups(<<SeasonalTxn(month, expense)>>, "operating")
    /\ sSeasonality' = ExpenseSeasonalityOf(sRollups')
    /\ UNCHANGED <<engineVars, windowVars, ingestVars, fetchVars, analyticsVars, forecastVars, syncVars, navVars>>

NextSeasonality ==
    \E month \in SeasonalMonths, expense \in SeasonalExpenses :
        AppendSeasonalMonth(month, expense)

SpecSeasonality == Init /\ [][NextSeasonality]_vars

-----------------------------------------------------------------------------
(* Specification of the latest-month analytics: a ledger grows by a whole *)
(* month of transactions, and the opportunities and movers are rebuilt.   *)

\* The kinds of month of the ledger
LedgerProfiles == {"broad", "narrow", "spike", "quiet"}

\* An expense of the given day of a month, in cents
LedgerExpense(year, month, day, category, cents) ==
    toTransaction(IsoDate(year, month, day), 0 - cents, <<category>>, "")

\* The transactions of one month: ten expense categories (two of them with the same
\* total); three categories; one category twice, one exactly 50 units and one more;
\* a small expense next to the income
LedgerTxns(profile, year, month) ==
    CASE profile = "broad" ->
            << toTransaction(IsoDate(year, month, 1), 300000, Sales, ""),
               LedgerExpense(year, month, 2, "Payroll", 90000),
               LedgerExpense(year, month, 3, "Rent", 60000),
               LedgerExpense(year, month, 4, "Utilities", 8000),
               LedgerExpense(year, month, 5, "Software", 7000),
               LedgerExpense(year, month, 6, "Travel", 16000),
               LedgerExpense(year, month, 7, "Meals", 6000),
               LedgerExpense(year, month, 8, "Insurance", 12000),
               LedgerExpense(year, month, 9, "Marketing", 16000),
               LedgerExpense(year, month, 10, "Supplies", 5500),
               LedgerExpense(year, month, 11, "Fees", 5001) >>
      [] profile = "narrow" ->
            << toTransaction(IsoDate(year, month, 1), 200000, Sales, ""),
               LedgerExpense(year, month, 2, "Payroll", 95000),
               LedgerExpense(year, month, 3, "Rent", 60000),
               LedgerExpense(year, month, 12, "Repairs", 20000) >>
      [] profile = "spike" ->
            << LedgerExpense(year, month, 3, "Rent", 60000),
               LedgerExpense(year, month, 6, "Travel", 5000),
               LedgerExpense(year, month, 10, "Supplies", 11100),
               LedgerExpense(year, month, 17, "Rent", 70000) >>
      [] profile = "quiet" ->
            << toTransaction(IsoDate(year, month, 1), 40000, Sales, ""),
               LedgerExpense(year, month, 7, "Meals", 4000) >>

\* The latest and the previous month of the rollups, as computeDashboardModel reads them
LatestMonthTxnsOf(list, monthlyRollups) ==
    FilterMonth(list, monthlyRollups[Len(monthlyRollups)].month)

PreviousMonthTxnsOf(list, monthlyRollups) ==
    IF Len(monthlyRollups) > 1
    THEN FilterMonth(list, monthlyRollups[Len(monthlyRollups) - 1].month)
    ELSE <<>>

\* The next month (from October 2024 on) joins the ledger with its transactions
AppendLedgerMonth(profile) ==
    /\ Len(aRollups) < MaxLedgerMonths
    /\ aTxns' = aTxns \o LedgerTxns(profile, 2024 + ((Len(aRollups) + 9) \div 12),
                                    ((Len(aRollups) + 9) % 12) + 1)
    /\ aRollups' = computeMonthlyRollups(aTxns', "operating")
    /\ aOpportunities' = buildOpportunities(LatestMonthTxnsOf(aTxns', aRollups'), aRollups', aTxns')
    /\ aMovers' = buildMovers(LatestMonthTxnsOf(aTxns', aRollups'),
                              PreviousMonthTxnsOf(aTxns', aRollups'))
    /\ UNCHANGED <<engineVars, windowVars, ingestVars, fetchVars, seasonVars, forecastVars, syncVars, navVars>>

NextAnalytics == \E profile \in LedgerProfiles : AppendLedgerMonth(profile)

SpecAnalytics == Init /\ [][NextAnalytics]_vars

-----------------------------------------------------------------------------
(* Properties of the monthly rollup builder *)

TxnAmountOf(txn) == txn.amount

\* The capital-distribution expense total of one month of the input
CapitalDistributionOfMonth(month) ==
    SumSeq(SeqMap(TxnAmountOf,
        SelectSeq(txns, LAMBDA txn :
            txn.month = month /\ txn.type = "expense" /\ isCapitalDistribution(txn.category))))

\* C1: every monthly rollup has netCashFlow = revenue - expenses in total mode and
\* netCashFlow = revenue - (expenses - capitalDistribution) in operating mode, where
\* capitalDistribution is the month's expense total in capital-distribution categories.
C1_RollupConsistency ==
    \A i \in 1..Len(model.monthlyRollups) :
        LET rollup == model.monthlyRollups[i]
        IN  IF cashFlowMode = "total"
            THEN rollup.netCashFlow = rollup.revenue - rollup.expenses
            ELSE rollup.netCashFlow =
                    rollup.revenue - (rollup.expenses - CapitalDistributionOfMonth(rollup.month))

\* An operating-mode rollup with revenue, a capital distribution and another expense
C1_Witness ==
    /\ cashFlowMode = "operating"
    /\ \E i \in 1..Len(model.monthlyRollups) :
          LET rollup == model.monthlyRollups[i]
          IN  /\ rollup.revenue > 0
              /\ CapitalDistributionOfMonth(rollup.month) > 0
              /\ rollup.expenses > CapitalDistributionOfMonth(rollup.month)

\* C2: the transactionCount of the rollups sums to the number of input transactions.
C2_TransactionCountSum ==
    SumSeq(SeqMap(TransactionCountOf, model.monthlyRollups)) = Len(txns)

\* Income and expense transactions spread over more than one month
C2_Witness ==
    /\ Len(txns) >= 3
    /\ Len(model.monthlyRollups) >= 2
    /\ \E i, j \in 1..Len(txns) : txns[i].type = "income" /\ txns[j].type = "expense"

\* The permutations of 1..n
IndexPermutations(n) ==
    {p \in [1..n -> 1..n] : \A i, j \in 1..n : p[i] = p[j] => i = j}

\* C3: one rollup per distinct month of the input, in strictly ascending month order,
\* and the same rollup list for every permutation of the input.
C3_RollupsSortedAndOrderFree ==
    /\ {model.monthlyRollups[i].month : i \in 1..Len(model.monthlyRollups)}
          = {txns[i].month : i \in 1..Len(txns)}
    /\ Len(model.monthlyRollups) = Cardinality({txns[i].month : i \in 1..Len(txns)})
    /\ \A i \in 1..(Len(model.monthlyRollups) - 1) :
          StrLess(model.monthlyRollups[i].month, model.monthlyRollups[i + 1].month)
    /\ \A p \in IndexPermutations(Len(txns)) :
          computeMonthlyRollups([i \in 1..Len(txns) |-> txns[p[i]]], cashFlowMode)
             = model.monthlyRollups

\* Transactions that arrive latest month first, so the sort has to reorder them
C3_Witness ==
    /\ Len(txns) >= 3
    /\ StrLess(txns[2].month, txns[1].month)
    /\ StrLess(txns[3].month, txns[2].month)
    /\ Len(model.monthlyRollups) = 3

-----------------------------------------------------------------------------
(* Properties of the comparison engine *)

Metrics(comparison) ==
    {comparison.revenue, comparison.expenses, comparison.netCashFlow, comparison.savingsRate}

\* C4: in every KPI comparison, percentChange is null whenever |previous| <= EPSILON
\* and otherwise is exactly (current - previous) / |previous| * 100.
C4_PercentChange ==
    \A timeframe \in Range(KPI_COMPARISON_TIMEFRAMES) :
        \A metric \in Metrics(model.kpiComparisonByTimeframe[timeframe]) :
            IF AbsLeEpsilon(metric.previous)
            THEN metric.percentChange = Null
            ELSE /\ metric.percentChange # Null
                 /\ metric.percentChange[1] =
                        Rat((metric.current - metric.previous) * 100, Abs(metric.previous))

\* A comparison against a real previous month whose revenue is exactly 0 (a naive
\* division would give Infinity) while its expenses are not
C4_Witness ==
    LET comparison == model.kpiComparisonByTimeframe["thisMonth"]
    IN  /\ comparison.previousMonthCount = 1
        /\ comparison.revenue.previous = 0
        /\ comparison.revenue.current > 0
        /\ comparison.expenses.previous > 0
        /\ comparison.expenses.percentChange # Null

\* The N of each trailing-N comparison timeframe
TrailingMonths(timeframe) ==
    CASE timeframe = "thisMonth" -> 1
      [] timeframe = "last3Months" -> 3
      [] timeframe = "ttm" -> 12
      [] timeframe = "last24Months" -> 24
      [] timeframe = "last36Months" -> 36

TrailingTimeframes == {"thisMonth", "last3Months", "ttm", "last24Months", "last36Months"}

MonthsOf(rollups) == {rollups[i].month : i \in 1..Len(rollups)}

\* C5: for a trailing-N timeframe over L rollups, previous is exactly the N rollups
\* immediately before the current block when L >= 2N and empty when L < 2N; it is
\* never partially filled and never overlaps current.
C5_PriorBlockAllOrNothing ==
    \A timeframe \in TrailingTimeframes :
        LET N == TrailingMonths(timeframe)
            L == Len(wRollups)
            blocks == wBlocks[timeframe]
        IN  /\ blocks.current = SubSeq(wRollups, Max(L - N, 0) + 1, L)
            /\ IF L >= 2 * N
               THEN blocks.previous = SubSeq(wRollups, L - 2 * N + 1, L - N)
               ELSE blocks.previous = <<>>
            /\ Len(blocks.previous) \in {0, N}
            /\ MonthsOf(blocks.previous) \cap MonthsOf(blocks.current) = {}

\* Exactly 2 x 36 months: the last36Months prior block is the first 36 months
C5_Witness ==
    /\ Len(wRollups) = 72
    /\ Len(wBlocks["last36Months"].previous) = 36
    /\ wBlocks["last36Months"].previous[1] = wRollups[1]
    /\ Len(wBlocks["last24Months"].previous) = 24

\* C6: with fewer than 2N months, a trailing-N comparison has previousMonthCount 0,
\* null previous start and end months and a null percentChange on every metric.
C6_InsufficientHistoryComparison ==
    \A timeframe \in TrailingTimeframes :
        Len(wRollups) < 2 * TrailingMonths(timeframe) =>
            LET comparison == wComparisons[timeframe]
            IN  /\ comparison.previousMonthCount = 0
                /\ comparison.previousStartMonth = Null
                /\ comparison.previousEndMonth = Null
                /\ \A metric \in Metrics(comparison) : metric.percentChange = Null

\* Five months: two months precede the last3Months block, yet previous is empty
C6_Witness ==
    /\ Len(wRollups) = 5
    /\ wComparisons["last3Months"].currentMonthCount = 3
    /\ wComparisons["last3Months"].previousMonthCount = 0
    /\ wComparisons["last3Months"].netCashFlow.current # 0
    /\ wComparisons["thisMonth"].previousMonthCount = 1

\* C7: a trajectory signal whose source comparison has an empty current or previous
\* window has hasSufficientHistory false, direction flat and light neutral.
C7_TrajectoryNeutrality ==
    \A i \in 1..Len(wSignals) :
        LET signal == wSignals[i]
            source == wComparisons[signal.timeframe]
        IN  (source.currentMonthCount = 0 \/ source.previousMonthCount = 0) =>
                /\ signal.hasSufficientHistory = FALSE
                /\ signal.direction = "flat"
                /\ signal.light = "neutral"

\* A signal with no previous window whose raw net-cash-flow delta is not zero
C7_Witness ==
    \E i \in 1..Len(wSignals) :
        /\ wComparisons[wSignals[i].timeframe].currentMonthCount > 0
        /\ wComparisons[wSignals[i].timeframe].previousMonthCount = 0
        /\ wSignals[i].delta < 0
        /\ wSignals[i].light = "neutral"

-----------------------------------------------------------------------------
(* Properties of the dashboard model *)

ComparisonsOf(dashboard) ==
    {dashboard.kpiComparisonByTimeframe[timeframe] :
        timeframe \in DOMAIN dashboard.kpiComparisonByTimeframe}

AggregatesOf(dashboard) ==
    {dashboard.kpiAggregationByTimeframe[timeframe] :
        timeframe \in DOMAIN dashboard.kpiAggregationByTimeframe}

\* C8: for an empty transaction list the model is the well-defined empty model (empty
\* lists, opportunityTotal 0, zeroed aggregates, comparisons with both month counts 0
\* and null percentChange, flat/neutral signals) and projectScenario returns no points.
C8_EmptyModel ==
    txns = <<>> =>
        /\ Len(model.monthlyRollups) = 0
        /\ Len(model.trend) = 0
        /\ Len(model.cashFlowForecastSeries) = 0
        /\ Len(model.expenseSlices) = 0
        /\ Len(model.topPayees) = 0
        /\ Len(model.movers) = 0
        /\ Len(model.opportunities) = 0
        /\ model.opportunityTotal = 0
        /\ \A aggregate \in AggregatesOf(model) :
              /\ aggregate.monthCount = 0
              /\ aggregate.revenue = 0
              /\ aggregate.expenses = 0
              /\ aggregate.netCashFlow = 0
              /\ aggregate.savingsRate = 0
        /\ \A comparison \in ComparisonsOf(model) :
              /\ comparison.currentMonthCount = 0
              /\ comparison.previousMonthCount = 0
              /\ \A metric \in Metrics(comparison) : metric.percentChange = Null
        /\ \A i \in 1..Len(model.trajectorySignals) :
              /\ model.trajectorySignals[i].direction = "flat"
              /\ model.trajectorySignals[i].light = "neutral"
        /\ Len(scenario) = 0

\* The model recomputed in total mode over no transactions, with a scenario that asks
\* for at least one projected month
C8_Witness ==
    /\ txns = <<>>
    /\ cashFlowMode = "total"
    /\ scenarioInput.months >= 1
    /\ scenarioInput.revenueGrowthPct > 0
    /\ Len(model.trajectorySignals) = 3

CardIds(dashboard) == [i \in 1..Len(dashboard.kpiCards) |-> dashboard.kpiCards[i].id]

ModelMapsAndSignals ==
    /\ DOMAIN model.kpiAggregationByTimeframe = Range(KPI_TIMEFRAMES)
    /\ Cardinality(DOMAIN model.kpiAggregationByTimeframe) = 8
    /\ DOMAIN model.kpiComparisonByTimeframe = Range(KPI_COMPARISON_TIMEFRAMES)
    /\ DOMAIN model.kpiHeaderLabelByTimeframe = Range(KPI_COMPARISON_TIMEFRAMES)
    /\ Cardinality(DOMAIN model.kpiComparisonByTimeframe) = 6
    /\ Len(model.trajectorySignals) = 3

FourKpiCards == CardIds(model) = <<"income", "expense", "net", "savingsRate">>

\* C9 as stated: for every transaction list, the empty one included, the model has 8 KPI
\* aggregates, 6 comparisons, 6 header labels, 3 trajectory signals and 4 KPI cards.
C9_AsStated == ModelMapsAndSignals /\ FourKpiCards

\* C9: the model always has 8 KPI aggregates, 6 comparisons, 6 header labels and 3
\* trajectory signals; it has the 4 KPI cards (revenue, expenses, net cash flow, savings
\* rate) for every non-empty transaction list and no KPI card for the empty list.
C9_ModelShape ==
    /\ ModelMapsAndSignals
    /\ IF txns = <<>> THEN Len(model.kpiCards) = 0 ELSE FourKpiCards

\* A non-empty list whose model carries the four cards, the savings-rate card included
C9_Witness ==
    /\ Len(txns) >= 2
    /\ Len(model.kpiCards) = 4
    /\ model.kpiCards[4].id = "savingsRate"
    /\ model.kpiCards[4].value # 0

-----------------------------------------------------------------------------
(* Properties of the forecast *)

\* The month key one calendar month after a well-formed key
NextCalendarMonth(parts) ==
    IF parts.month = 12 THEN MonthKey(parts.year + 1, 1)
    ELSE MonthKey(parts.year, parts.month + 1)

\* C10: in the forecast series every projected month is exactly one calendar month
\* after the point before it (December is followed by January of the next year) and
\* its key is strictly greater than that point's key.
C10_ForecastChronology ==
    \A i \in 2..Len(model.cashFlowForecastSeries) :
        model.cashFlowForecastSeries[i].status = "projected" =>
            LET before == parseMonthParts(model.cashFlowForecastSeries[i - 1].month)
            IN  /\ before # Null
                /\ model.cashFlowForecastSeries[i].month = NextCalendarMonth(before[1])
                /\ StrLess(model.cashFlowForecastSeries[i - 1].month,
                           model.cashFlowForecastSeries[i].month)

-----------------------------------------------------------------------------
\* C11: for a non-empty rollup list the forecast series is one "actual" point per
\* rollup, in rollup order and with that rollup's month, revenue, expenses and
\* netCashFlow, followed by exactly ProjectionHorizon "projected" points; no "actual"
\* point follows a "projected" one.
C11_ForecastSeriesShape ==
    Len(model.monthlyRollups) > 0 =>
        LET series == model.cashFlowForecastSeries
            rollups == model.monthlyRollups
        IN  /\ Len(series) = Len(rollups) + 36
            /\ \A k \in 1..Len(rollups) :
                  /\ series[k].status = "actual"
                  /\ series[k].month = rollups[k].month
                  /\ series[k].revenue = rollups[k].revenue
                  /\ series[k].expenses = rollups[k].expenses
                  /\ series[k].netCashFlow = rollups[k].netCashFlow
            /\ \A k \in (Len(rollups) + 1)..Len(series) : series[k].status = "projected"
            /\ \A i, j \in 1..Len(series) :
                  (series[i].status = "projected" /\ i < j) => series[j].status # "actual"

\* Three months of history with an operating-mode net that differs from revenue minus
\* expenses, carried into the actual points, and then the projected points
C11_Witness ==
    /\ Len(model.monthlyRollups) = 3
    /\ cashFlowMode = "operating"
    /\ \E k \in 1..3 :
          /\ model.cashFlowForecastSeries[k].netCashFlow
                # model.cashFlowForecastSeries[k].revenue - model.cashFlowForecastSeries[k].expenses
          /\ model.cashFlowForecastSeries[k].status = "actual"
    /\ model.cashFlowForecastSeries[4].status = "projected"
    /\ model.cashFlowForecastSeries[39].status = "projected"

-----------------------------------------------------------------------------
(* Properties of the KPI aggregates and windows *)

\* The sum of one field over a window, read field by field
WindowTotal(window, field) ==
    LET total[k \in 0..Len(window)] ==
            IF k = 0 THEN 0
            ELSE total[k - 1] + (CASE field = "revenue" -> window[k].revenue
                                   [] field = "expenses" -> window[k].expenses
                                   [] field = "transactionCount" -> window[k].transactionCount
                                   [] field = "savingsRate" -> window[k].savingsRate)
    IN  total[Len(window)]

\* C12: the KPI aggregate of every timeframe window W has revenue, expenses and
\* transactionCount summed over W, monthCount = |W|, startMonth/endMonth the first/last
\* month of W (null when W is empty), netCashFlow = summed revenue - summed expenses,
\* and savingsRate recomputed from the summed totals (0 when summed revenue is 0).
C12_AggregateOfWindow ==
    \A timeframe \in Range(KPI_TIMEFRAMES) :
        LET window == selectRollupsForTimeframe(model.monthlyRollups, timeframe)
            aggregate == model.kpiAggregationByTimeframe[timeframe]
            revenue == WindowTotal(window, "revenue")
            expenses == WindowTotal(window, "expenses")
        IN  /\ aggregate.revenue = revenue
            /\ aggregate.expenses = expenses
            /\ aggregate.transactionCount = WindowTotal(window, "transactionCount")
            /\ aggregate.monthCount = Len(window)
            /\ aggregate.startMonth = IF Len(window) = 0 THEN Null ELSE Some(window[1].month)
            /\ aggregate.endMonth =
                  IF Len(window) = 0 THEN Null ELSE Some(window[Len(window)].month)
            /\ aggregate.netCashFlow = revenue - expenses
            /\ IF revenue <= 0 THEN aggregate.savingsRate = 0
               ELSE \* the nearest hundredth of a percent to (net / revenue) * 100
                    /\ 2 * aggregate.savingsRate * revenue
                          <= 2 * (revenue - expenses) * 10000 + revenue
                    /\ 2 * aggregate.savingsRate * revenue
                          > 2 * (revenue - expenses) * 10000 - revenue

\* A window of several months whose recomputed savings rate is not the average of the
\* monthly rates
C12_Witness ==
    LET aggregate == model.kpiAggregationByTimeframe["allDates"]
        rateSum == WindowTotal(model.monthlyRollups, "savingsRate")
    IN  /\ aggregate.monthCount >= 2
        /\ aggregate.revenue > 0
        /\ Abs(aggregate.savingsRate * aggregate.monthCount - rateSum) > aggregate.monthCount

-----------------------------------------------------------------------------
\* The last min(count, L) elements of a list of length L
LastOf(list, count) == SubSeq(list, Len(list) - Min(count, Len(list)) + 1, Len(list))

IsContiguousRun(window, list) ==
    \E first \in 1..(Len(list) + 1) : window = SubSeq(list, first, first + Len(window) - 1)

\* C13: over a sorted rollup list of length L, thisMonth selects the last rollup,
\* lastMonth the second-to-last (nothing when L < 2), last3/12/24/36Months the last
\* min(N, L) rollups, allDates every rollup; every selected window (ytd included) is a
\* contiguous run of the list in its original order.
C13_WindowSelection ==
    LET L == Len(wRollups)
    IN  /\ wWindows["thisMonth"] = LastOf(wRollups, 1)
        /\ wWindows["lastMonth"] = IF L < 2 THEN <<>> ELSE <<wRollups[L - 1]>>
        /\ wWindows["last3Months"] = LastOf(wRollups, 3)
        /\ wWindows["last12Months"] = LastOf(wRollups, 12)
        /\ wWindows["last24Months"] = LastOf(wRollups, 24)
        /\ wWindows["last36Months"] = LastOf(wRollups, 36)
        /\ wWindows["allDates"] = wRollups
        /\ \A timeframe \in Range(KPI_TIMEFRAMES) :
              IsContiguousRun(wWindows[timeframe], wRollups)

\* Forty months: last36Months is cut to 36 of them, last24Months to 24, lastMonth is
\* the 39th and ytd the four months of the latest year
C13_Witness ==
    /\ Len(wRollups) = 40
    /\ Len(wWindows["last36Months"]) = 36
    /\ wWindows["last36Months"][1] = wRollups[5]
    /\ Len(wWindows["last24Months"]) = 24
    /\ wWindows["lastMonth"] = <<wRollups[39]>>
    /\ Len(wWindows["ytd"]) = 4

-----------------------------------------------------------------------------
YearOf(rollup) == parseMonthParts(rollup.month)[1].year

MonthNumber(rollup) == parseMonthParts(rollup.month)[1].month

\* The rollups of one calendar year up to a calendar month, in list order
CalendarMonthsOf(rollups, year, throughMonth) ==
    SelectSeq(rollups, LAMBDA rollup : YearOf(rollup) = year /\ MonthNumber(rollup) <= throughMonth)

\* C14: for the ytd timeframe with latest month Y-M, the current block is exactly the
\* rollups of year Y with month number <= M and the previous block exactly the rollups
\* of year Y-1 with month number <= M; neither holds a rollup of another year or of a
\* later calendar month.
C14_YtdBlocks ==
    Len(wRollups) > 0 =>
        LET latest == wRollups[Len(wRollups)]
            blocks == wBlocks["ytd"]
        IN  /\ blocks.current = CalendarMonthsOf(wRollups, YearOf(latest), MonthNumber(latest))
            /\ blocks.previous =
                  CalendarMonthsOf(wRollups, YearOf(latest) - 1, MonthNumber(latest))
            /\ \A k \in 1..Len(blocks.current) :
                  /\ YearOf(blocks.current[k]) = YearOf(latest)
                  /\ MonthNumber(blocks.current[k]) <= MonthNumber(latest)
            /\ \A k \in 1..Len(blocks.previous) :
                  /\ YearOf(blocks.previous[k]) = YearOf(latest) - 1
                  /\ MonthNumber(blocks.previous[k]) <= MonthNumber(latest)

\* Twenty-nine months ending in May of the third year: both blocks are January to May,
\* the previous one out of a full prior year, and the first year is left out
C14_Witness ==
    /\ Len(wRollups) = 29
    /\ Len(wBlocks["ytd"].current) = 5
    /\ Len(wBlocks["ytd"].previous) = 5
    /\ wBlocks["ytd"].previous[1] = wRollups[13]
    /\ wBlocks["ytd"].previous[5] = wRollups[17]
    /\ wBlocks["ytd"].current[1] = wRollups[25]

-----------------------------------------------------------------------------
(* Properties of the trajectory signals and of comparisons *)

\* C15: a trajectory signal with sufficient history is flat when the net-cash-flow
\* delta of its comparison is 0, up when it is positive and down when it is negative;
\* its light is green exactly when it is up, red exactly when it is down and neutral
\* exactly when it is flat.
C15_TrajectoryDirection ==
    \A i \in 1..Len(wSignals) :
        LET signal == wSignals[i]
            delta == wComparisons[signal.timeframe].netCashFlow.delta
        IN  signal.hasSufficientHistory =>
                /\ signal.direction = (IF delta = 0 THEN "flat"
                                       ELSE IF delta > 0 THEN "up" ELSE "down")
                /\ (signal.light = "green") = (signal.direction = "up")
                /\ (signal.light = "red") = (signal.direction = "down")
                /\ (signal.light = "neutral") = (signal.direction = "flat")

\* All three signals have history: the month is flat, the quarter is down and red,
\* the year is up and green
C15_Witness ==
    /\ \A i \in 1..3 : wSignals[i].hasSufficientHistory
    /\ wSignals[1].direction = "flat" /\ wSignals[1].light = "neutral"
    /\ wSignals[2].direction = "down" /\ wSignals[2].light = "red"
    /\ wSignals[3].direction = "up" /\ wSignals[3].light = "green"

-----------------------------------------------------------------------------
\* C16: a window compared with itself has delta 0 on revenue, expenses, netCashFlow and
\* savingsRate; percentChange is 0 on each metric whose value is not 0 and null on each
\* metric whose value is 0.
C16_SelfComparison ==
    \A timeframe \in Range(KPI_COMPARISON_TIMEFRAMES) :
        \A metric \in Metrics(wSelfComparisons[timeframe]) :
            /\ metric.current = metric.previous
            /\ metric.delta = 0
            /\ IF metric.current = 0 THEN metric.percentChange = Null
               ELSE metric.percentChange # Null /\ metric.percentChange[1][1] = 0

\* A month without revenue compared with itself: revenue has no percentChange,
\* expenses and net cash flow have percentChange 0
C16_Witness ==
    LET comparison == wSelfComparisons["thisMonth"]
    IN  /\ comparison.currentMonthCount = 1
        /\ comparison.previousMonthCount = 1
        /\ comparison.revenue.current = 0
        /\ comparison.revenue.percentChange = Null
        /\ comparison.expenses.current > 0
        /\ comparison.expenses.percentChange # Null
        /\ comparison.netCashFlow.current < 0
        /\ comparison.netCashFlow.percentChange # Null
        /\ Len(wRollups) > 12

-----------------------------------------------------------------------------
(* Properties of the scenario projector *)

ScenarioNetTotal(points, k) ==
    LET total[j \in 0..k] == IF j = 0 THEN 0 ELSE total[j - 1] + points[j].projectedNet
    IN  total[k]

\* The amounts of the projected points: each net is income minus expense and each
\* cumulativeNet is the sum of the nets so far
ScenarioAmounts ==
    \A k \in 1..Len(scenario) :
        /\ scenario[k].projectedNet = scenario[k].projectedIncome - scenario[k].projectedExpense
        /\ scenario[k].cumulativeNet = ScenarioNetTotal(scenario, k)

\* The months of the projected points: each is the calendar month after the one
\* before it, starting after latestMonth
ScenarioMonths ==
    \A k \in 1..Len(scenario) :
        LET before == parseMonthParts(IF k = 1 THEN model.latestMonth ELSE scenario[k - 1].month)
        IN  before # Null /\ scenario[k].month = NextCalendarMonth(before[1])

\* C17: on a model with at least one rollup and months = m >= 1, projectScenario returns
\* exactly m points for the m consecutive calendar months after latestMonth, with
\* projectedNet = projectedIncome - projectedExpense and cumulativeNet the running sum of
\* projectedNet; on a model without rollups it returns no point.
C17_ScenarioProjection ==
    IF Len(model.monthlyRollups) = 0 THEN Len(scenario) = 0
    ELSE /\ Len(scenario) = scenarioInput.months
         /\ ScenarioMonths
         /\ ScenarioAmounts

-----------------------------------------------------------------------------
(* Properties of the normalization layer *)

\* text is a month key "YYYY-MM"
IsMonthKeyText(text) ==
    /\ Len(text) = 7
    /\ \A i \in 1..7 : IF i = 5 THEN text[i] = Dash ELSE IsDigit(text[i])

\* The type and the amount of a transaction follow its raw amount
TypeAndAmountFromRawAmount(txn) ==
    /\ txn.type \in {"income", "expense"}
    /\ (txn.type = "income") <=> (txn.rawAmount >= 0)
    /\ txn.amount = (IF txn.rawAmount < 0 THEN 0 - txn.rawAmount ELSE txn.rawAmount)

\* The month of a transaction is the "YYYY-MM" its date starts with
MonthIsPrefixOfDate(txn) ==
    /\ IsMonthKeyText(txn.month)
    /\ Len(txn.date) = 10
    /\ \A i \in 1..7 : txn.date[i] = txn.month[i]
    /\ txn.date[8] = Dash

\* C18: every transaction produced by normalizeRecords has type income exactly when
\* its raw amount is >= 0 (zero is income) and expense otherwise, amount = |rawAmount|,
\* and month = the YYYY-MM prefix of its date.
C18_TransactionFields ==
    \A i \in 1..Len(dataSetTxns) :
        TypeAndAmountFromRawAmount(dataSetTxns[i]) /\ MonthIsPrefixOfDate(dataSetTxns[i])

-----------------------------------------------------------------------------
(* Properties of the CSV adapter *)

\* The URLs of a call that are not empty, the primary one first
NonEmptyUrlsOf(call) ==
    (IF call.primaryUrl = "" THEN <<>> ELSE <<call.primaryUrl>>)
    \o (IF call.fallbackUrl = "" THEN <<>> ELSE <<call.fallbackUrl>>)

\* Every request of the call except the last one sent has failed
EarlierAttemptsFailed ==
    \A i \in 1..(Len(attempts) - 1) : attempts[i].outcome = "failed"

\* A call that has returned gives the records and the URL of its last request, the
\* only one that succeeded
ReturnsFirstSuccess ==
    fetchPc = "returned" =>
        /\ Len(attempts) >= 1
        /\ attempts[Len(attempts)].outcome = "succeeded"
        /\ fetchResult # Null
        /\ fetchResult[1].sourceUrl = attempts[Len(attempts)].url
        /\ Len(fetchResult[1].records) > 0
        /\ fetchThrown = Null

\* C19 as stated: the primary URL is requested first, the fallback URL only after the
\* request to the primary URL has failed; the call returns the records and URL of the
\* first request that succeeds; it throws only when every request has failed, and then
\* the error of the last URL requested.
C19_AsStated ==
    /\ Len(attempts) <= 2
    /\ Len(attempts) >= 1 => attempts[1].url = fetchCall.primaryUrl
    /\ Len(attempts) >= 2 => attempts[2].url = fetchCall.fallbackUrl
    /\ EarlierAttemptsFailed
    /\ ReturnsFirstSuccess
    /\ fetchPc # "returned" => fetchResult = Null
    /\ fetchPc # "thrown" => fetchThrown = Null
    /\ fetchPc = "thrown" =>
        /\ Len(attempts) >= 1
        /\ \A i \in 1..Len(attempts) : attempts[i].outcome = "failed"
        /\ fetchThrown = attempts[Len(attempts)].error

\* C19: fetchSheetCsv requests the non-empty ones of (primary URL, fallback URL) in that
\* order, each only after the request before it has failed (network error, status not
\* ok, or no data row); it returns the records and sourceUrl of the first request that
\* succeeds; it throws only when every such URL has been requested and has failed: the
\* error of the last request, or the 'Failed to fetch CSV data' error when both URLs
\* are empty and no request was sent.
C19_FetchOrder ==
    /\ Len(attempts) <= Len(NonEmptyUrlsOf(fetchCall))
    /\ \A i \in 1..Len(attempts) : attempts[i].url = NonEmptyUrlsOf(fetchCall)[i]
    /\ EarlierAttemptsFailed
    /\ ReturnsFirstSuccess
    /\ fetchPc # "returned" => fetchResult = Null
    /\ fetchPc # "thrown" => fetchThrown = Null
    /\ fetchPc = "thrown" =>
        /\ Len(attempts) = Len(NonEmptyUrlsOf(fetchCall))
        /\ \A i \in 1..Len(attempts) : attempts[i].outcome = "failed"
        /\ fetchThrown = (IF Len(attempts) = 0 THEN Some(FailedToFetchError)
                          ELSE attempts[Len(attempts)].error)

\* The fallback URL has answered with data rows after the primary URL had failed
C19_Witness ==
    /\ fetchPc = "returned"
    /\ Len(attempts) = 2
    /\ attempts[1].url = fetchCall.primaryUrl
    /\ attempts[1].outcome = "failed"
    /\ fetchResult[1].sourceUrl = fetchCall.fallbackUrl
    /\ Len(fetchResult[1].records) = 2

-----------------------------------------------------------------------------
(* Properties of the seasonality detection *)

\* The number of rollups that fall in calendar month number m
ObservationsOf(m) ==
    Cardinality({k \in 1..Len(sRollups) :
                    /\ parseMonthParts(sRollups[k].month) # Null
                    /\ parseMonthParts(sRollups[k].month)[1].month = m})

RECURSIVE WeightedAdjustmentSum(_, _)
\* The sum over the calendar months 1..m of adjustment x number of observations
WeightedAdjustmentSum(adjustments, m) ==
    IF m = 0 THEN RInt(0)
    ELSE RAdd(WeightedAdjustmentSum(adjustments, m - 1),
              RMul(adjustments[m], RInt(ObservationsOf(m))))

\* C20: after re-centering, the sum over the observed calendar-month groups of
\* (seasonal adjustment x number of observations of the group) is 0, and a calendar
\* month without observation keeps the adjustment 0. (Numbers are exact fractions
\* here; in floating point the sum is 0 up to rounding.)
C20_SeasonalityRecentering ==
    sSeasonality # Null =>
        /\ WeightedAdjustmentSum(sSeasonality[1].adjustmentsByMonth, 12) = RInt(0)
        /\ \A m \in 1..12 :
              ObservationsOf(m) = 0 => sSeasonality[1].adjustmentsByMonth[m] = RInt(0)

\* Two rollups of one calendar month and one of another, with adjustments that are not 0
C20_Witness ==
    /\ sSeasonality # Null
    /\ \E m \in 1..12 : ObservationsOf(m) = 2
    /\ \E m \in 1..12 : ObservationsOf(m) = 1
    /\ \E m \in 1..12 : ObservationsOf(m) = 0
    /\ \A m \in 1..12 :
          ObservationsOf(m) > 0 => sSeasonality[1].adjustmentsByMonth[m] # RInt(0)

-----------------------------------------------------------------------------
(* The forecast of a long history.  A history is a ledger with one sales row and *)
(* one rent row per month; the months are appended in date order.               *)

HistoryProfiles == {"slow", "growth", "decline", "seasonal", "noisy", "sparse", "fading"}

\* The calendar month of the month at position index (from 0) of a history: every
\* month from 2022-01 on, except for the sparse history, which skips October to December
HistoryMonth(profile, index) ==
    IF profile = "sparse"
    THEN MonthKey(2022 + (index \div 9), (index % 9) + 1)
    ELSE MonthKey(2022 + (index \div 12), (index % 12) + 1)

\* The sales of the month, in currency units
HistoryRevenue(profile, index) ==
    CASE profile = "slow" -> 10 + (index \div 2)
      [] profile = "fading" -> 4 + (index \div 4)
      [] profile = "growth" -> 10 + index
      [] profile = "decline" -> Max(0, 50 - 2 * index)
      [] profile = "noisy" -> 10 + (IF index % 5 = 0 THEN 2 ELSE 0)
      [] OTHER -> 10

\* The rent of the month, in currency units
HistoryExpenses(profile, index) ==
    LET monthNumber == MonthNumberOf(HistoryMonth(profile, index))
    IN  CASE profile = "slow" -> 6
          [] profile = "growth" -> Max(0, 48 - 2 * index)
          [] profile = "decline" -> 5 + 2 * index
          [] profile = "seasonal" ->
                8 + (IF monthNumber = 12 THEN 6 ELSE 0) + (IF monthNumber = 6 THEN 3 ELSE 0)
          [] profile = "noisy" ->
                8 + (IF monthNumber \in {1, 2} THEN 6 ELSE 0) + (IF index % 7 = 3 THEN 1 ELSE 0)
          [] profile = "sparse" ->
                8 + (IF monthNumber = 9 THEN 6 ELSE 0) + (IF index % 7 = 3 THEN 1 ELSE 0)
          [] profile = "fading" ->
                Max(0, 50 - 2 * index) + (IF monthNumber = 3 THEN 12 ELSE 0)

\* The rows of the month; a month without sales or without rent has no such row
HistoryTxns(profile, index) ==
    (IF HistoryRevenue(profile, index) > 0
     THEN <<toTransaction(HistoryMonth(profile, index) \o <<Dash, 0, 1>>,
                          HistoryRevenue(profile, index) * CentsPerUnit, Sales, "")>>
     ELSE <<>>)
    \o
    (IF HistoryExpenses(profile, index) > 0
     THEN <<toTransaction(HistoryMonth(profile, index) \o <<Dash, 0, 2>>,
                          0 - HistoryExpenses(profile, index) * CentsPerUnit, Rent, "")>>
     ELSE <<>>)

RevenueValues(monthlyRollups) == [k \in 1..Len(monthlyRollups) |-> Units(monthlyRollups[k].revenue)]
ExpenseValues(monthlyRollups) == [k \in 1..Len(monthlyRollups) |-> Units(monthlyRollups[k].expenses)]

\* The next month of the history joins the ledger and the forecast is rebuilt
AppendHistoryMonth(profile) ==
    /\ Len(fRollups) < MaxHistoryMonths
    /\ fRollups = <<>> \/ profile = fProfile
    /\ fProfile' = profile
    /\ fRollups' = fRollups \o computeMonthlyRollups(HistoryTxns(profile, Len(fRollups)), "operating")
    /\ fRevenueTrend' = Some(buildTrendModel(RevenueValues(fRollups')))
    /\ fExpenseTrend' = Some(buildTrendModel(ExpenseValues(fRollups')))
    /\ fSeasonality' = ExpenseSeasonalityOf(fRollups')
    /\ fSeries' = buildCashFlowForecastSeries(fRollups', ProjectionHorizon)
    /\ UNCHANGED <<engineVars, windowVars, ingestVars, fetchVars, seasonVars, analyticsVars, syncVars, navVars>>

NextForecast == \E profile \in HistoryProfiles : AppendHistoryMonth(profile)

SpecForecast == Init /\ [][NextForecast]_vars

-----------------------------------------------------------------------------
(* Claims on the opportunities and movers of the latest ledger month *)

\* The month of the last rollup, the month the opportunities are built for
LatestLedgerMonth == aRollups[Len(aRollups)].month

\* The up-to-3 rollup months strictly before the latest one
BaselineMonths ==
    {aRollups[i].month : i \in {k \in 1..(Len(aRollups) - 1) : k >= Len(aRollups) - 3}}

\* The expense total, in cents, of a category over a set of months of the ledger
LedgerExpenseTotal(category, months) ==
    LET counted == SelectSeq(aTxns, LAMBDA txn :
                      txn.type = "expense" /\ txn.category = category /\ txn.month \in months)
    IN  SumSeq([i \in 1..Len(counted) |-> counted[i].amount])

LatestExpenseCategories ==
    {aTxns[i].category : i \in {k \in 1..Len(aTxns) :
        aTxns[k].type = "expense" /\ aTxns[k].month = LatestLedgerMonth}}

\* The divisor of the mean: the number of baseline months, 1 when there is none
BaselineDivisor == Max(1, Cardinality(BaselineMonths))

\* overrun x BaselineDivisor, in cents: latest-month total minus the baseline mean
OverrunNumerator(category) ==
    LedgerExpenseTotal(category, {LatestLedgerMonth}) * BaselineDivisor
        - LedgerExpenseTotal(category, BaselineMonths)

QualifyingCategories ==
    {category \in LatestExpenseCategories :
        OverrunNumerator(category) > OverrunThresholdUnits * CentsPerUnit * BaselineDivisor}

OverrunSavings(category) == round2(OverrunNumerator(category), BaselineDivisor)

LatestExpenseTotal ==
    LET counted == SelectSeq(aTxns, LAMBDA txn :
                      txn.type = "expense" /\ txn.month = LatestLedgerMonth)
    IN  SumSeq([i \in 1..Len(counted) |-> counted[i].amount])

\* C21: for a non-empty latest month buildOpportunities lists exactly the expense
\* categories whose latest-month total exceeds by more than 50 the mean of the
\* category over the up-to-3 rollup months before the latest month (0 when there is
\* none), by overrun descending, at most 8 and then the 8 largest; when no category
\* qualifies it is the single fallback item with 3% of the latest month's expenses.
\* (Amounts are whole cents and the mean an exact fraction, rounded to the cent by
\* round2 as in the code.)
C21_Opportunities ==
    aRollups # <<>> =>
        IF QualifyingCategories = {}
        THEN /\ Len(aOpportunities) = 1
             /\ aOpportunities[1].title = <<"Tighten discretionary spend">>
             /\ aOpportunities[1].savings = round2(LatestExpenseTotal * FallbackSavingsPercent, 100)
        ELSE /\ Len(aOpportunities) = Min(8, Cardinality(QualifyingCategories))
             /\ \A i \in 1..Len(aOpportunities) :
                   \E category \in QualifyingCategories :
                      /\ aOpportunities[i].title = <<"Control", category>>
                      /\ aOpportunities[i].savings = OverrunSavings(category)
             /\ \A i, j \in 1..Len(aOpportunities) :
                   /\ i # j => aOpportunities[i].title # aOpportunities[j].title
                   /\ i < j => aOpportunities[i].savings >= aOpportunities[j].savings
             /\ \A category \in QualifyingCategories :
                   (\A i \in 1..Len(aOpportunities) :
                       aOpportunities[i].title # <<"Control", category>>)
                   => \A i \in 1..Len(aOpportunities) :
                         OverrunSavings(category) <= aOpportunities[i].savings

\* More than 3 earlier rollup months, one of them outside the baseline with expenses
\* in a qualifying category, and more than 8 qualifying categories cut down to 8
C21_Witness ==
    /\ Len(aRollups) = 5
    /\ Cardinality(QualifyingCategories) > 8
    /\ Len(aOpportunities) = 8
    /\ \E category \in QualifyingCategories :
          LedgerExpenseTotal(category, {aRollups[1].month}) > 0

-----------------------------------------------------------------------------
\* The months the movers compare: the last rollup month and the one before it
MoverMonths ==
    {aRollups[i].month : i \in {k \in 1..Len(aRollups) : k >= Len(aRollups) - 1}}

PreviousLedgerMonths ==
    {aRollups[i].month : i \in {k \in 1..Len(aRollups) : k = Len(aRollups) - 1}}

\* The union of the expense categories of the latest and of the previous month
MoverCategories ==
    {aTxns[i].category : i \in {k \in 1..Len(aTxns) :
        aTxns[k].type = "expense" /\ aTxns[k].month \in MoverMonths}}

MoverDelta(category) ==
    LedgerExpenseTotal(category, {LatestLedgerMonth})
        - LedgerExpenseTotal(category, PreviousLedgerMonths)

\* C28: buildMovers returns one entry per category of the union of the expense
\* categories of the latest and the previous month, with delta = current - previous
\* and deltaPercent null when the previous total is 0, ordered by |delta| descending
\* and cut to 8 entries; no omitted category has a larger |delta| than a returned one.
C28_Movers ==
    aRollups # <<>> =>
        /\ Len(aMovers) = Min(8, Cardinality(MoverCategories))
        /\ \A i \in 1..Len(aMovers) :
              /\ aMovers[i].category \in MoverCategories
              /\ aMovers[i].current = LedgerExpenseTotal(aMovers[i].category, {LatestLedgerMonth})
              /\ aMovers[i].previous = LedgerExpenseTotal(aMovers[i].category, PreviousLedgerMonths)
              /\ aMovers[i].delta = aMovers[i].current - aMovers[i].previous
              /\ aMovers[i].previous = 0 => aMovers[i].deltaPercent = Null
        /\ \A i, j \in 1..Len(aMovers) :
              /\ i # j => aMovers[i].category # aMovers[j].category
              /\ i < j => Abs(aMovers[i].delta) >= Abs(aMovers[j].delta)
        /\ \A category \in MoverCategories :
              (\A i \in 1..Len(aMovers) : aMovers[i].category # category)
              => \A i \in 1..Len(aMovers) : Abs(MoverDelta(category)) <= Abs(aMovers[i].delta)

\* More than 8 categories in the union, a returned category that shrank, one that is
\* new in the latest month and one that only the previous month has
C28_Witness ==
    /\ Cardinality(MoverCategories) > 8
    /\ Len(aMovers) = 8
    /\ \E i \in 1..8 : aMovers[i].delta < 0 /\ aMovers[i].current = 0
    /\ \E i \in 1..8 : aMovers[i].previous = 0 /\ aMovers[i].deltaPercent = Null
    /\ \E i, j \in 1..8 : i < j /\ aMovers[i].delta < 0 /\ aMovers[j].delta > 0
    /\ \E category \in MoverCategories :
          /\ \A i \in 1..8 : aMovers[i].category # category
          /\ MoverDelta(category) # 0

-----------------------------------------------------------------------------
(* Net cash flow of the KPI aggregates against the monthly rollups *)

\* The sum of the netCashFlow of the rollups of a window
WindowNet(window) ==
    LET total[k \in 0..Len(window)] ==
            IF k = 0 THEN 0 ELSE total[k - 1] + window[k].netCashFlow
    IN  total[Len(window)]

TrendNet ==
    LET total[k \in 0..Len(model.trend)] ==
            IF k = 0 THEN 0 ELSE total[k - 1] + model.trend[k].net
    IN  total[Len(model.trend)]

\* C22: under both cash-flow modes the netCashFlow of every KPI aggregate and of every
\* comparison block is the sum of the netCashFlow of the monthly rollups of its window;
\* the thisMonth aggregate has the netCashFlow of the latest rollup and the allDates
\* aggregate the sum of the net values of the trend series.
C22_NetCashFlowOfWindow ==
    /\ \A timeframe \in Range(KPI_TIMEFRAMES) :
          model.kpiAggregationByTimeframe[timeframe].netCashFlow =
             WindowNet(selectRollupsForTimeframe(model.monthlyRollups, timeframe))
    /\ \A timeframe \in Range(KPI_COMPARISON_TIMEFRAMES) :
          LET blocks == selectComparisonBlocks(model.monthlyRollups, timeframe)
              comparison == model.kpiComparisonByTimeframe[timeframe]
          IN  /\ comparison.netCashFlow.current = WindowNet(blocks.current)
              /\ comparison.netCashFlow.previous = WindowNet(blocks.previous)
    /\ model.monthlyRollups # <<>> =>
          model.kpiAggregationByTimeframe["thisMonth"].netCashFlow =
             model.monthlyRollups[Len(model.monthlyRollups)].netCashFlow
    /\ model.kpiAggregationByTimeframe["allDates"].netCashFlow = TrendNet

-----------------------------------------------------------------------------
(* The two cash-flow modes on the same transactions *)

OperatingRollups == computeMonthlyRollups(txns, "operating")
TotalRollups == computeMonthlyRollups(txns, "total")

\* C29: on the same transactions the operating-mode and the total-mode rollups have
\* the same months, revenue, expenses and transactionCount; operating netCashFlow
\* minus total netCashFlow is the month's capital-distribution expense total, never
\* negative; without capital-distribution expense the two lists are identical.
C29_ModesDifferByCapitalDistribution ==
    /\ model.monthlyRollups = computeMonthlyRollups(txns, cashFlowMode)
    /\ Len(OperatingRollups) = Len(TotalRollups)
    /\ \A i \in 1..Len(TotalRollups) :
          /\ OperatingRollups[i].month = TotalRollups[i].month
          /\ OperatingRollups[i].revenue = TotalRollups[i].revenue
          /\ OperatingRollups[i].expenses = TotalRollups[i].expenses
          /\ OperatingRollups[i].transactionCount = TotalRollups[i].transactionCount
          /\ OperatingRollups[i].netCashFlow - TotalRollups[i].netCashFlow =
                CapitalDistributionOfMonth(TotalRollups[i].month)
          /\ OperatingRollups[i].netCashFlow >= TotalRollups[i].netCashFlow
          /\ CapitalDistributionOfMonth(TotalRollups[i].month) = 0 =>
                OperatingRollups[i] = TotalRollups[i]
    /\ (\A k \in 1..Len(txns) :
           ~(txns[k].type = "expense" /\ isCapitalDistribution(txns[k].category)))
       => OperatingRollups = TotalRollups

\* A month with revenue whose capital distribution changes net cash flow and savings
\* rate between the modes, next to a month that is the same in both modes
C29_Witness ==
    /\ \E i \in 1..Len(TotalRollups) :
          /\ OperatingRollups[i].netCashFlow > TotalRollups[i].netCashFlow
          /\ OperatingRollups[i].savingsRate # TotalRollups[i].savingsRate
    /\ \E j \in 1..Len(TotalRollups) :
          /\ TotalRollups[j].transactionCount > 0
          /\ OperatingRollups[j] = TotalRollups[j]

-----------------------------------------------------------------------------
(* The latest month of the model against the months of the transactions *)

RECURSIVE maxMonthFromTxnsFold(_, _)
\* The reducer of maxMonthFromTxns: '' is the empty string, > compares strings
maxMonthFromTxnsFold(latest, list) ==
    IF list = <<>> THEN latest
    ELSE IF latest = <<>> THEN maxMonthFromTxnsFold(Head(list).month, Tail(list))
    ELSE IF StrLess(latest, Head(list).month)
         THEN maxMonthFromTxnsFold(Head(list).month, Tail(list))
         ELSE maxMonthFromTxnsFold(latest, Tail(list))

maxMonthFromTxns(list) == maxMonthFromTxnsFold(<<>>, list)

latestMonthFromRollups(monthlyRollups) ==
    IF Len(monthlyRollups) > 0 THEN monthlyRollups[Len(monthlyRollups)].month ELSE <<>>

\* buildPrePhase4DebugReport(...).latestMonthUsesMaxDate
latestMonthUsesMaxDate(monthlyRollups, list) ==
    \/ maxMonthFromTxns(list) = <<>>
    \/ latestMonthFromRollups(monthlyRollups) = maxMonthFromTxns(list)

\* A well-formed month as the number of months since year 0
MonthOrdinal(month) == parseMonthParts(month)[1].year * 12 + parseMonthParts(month)[1].month

TxnMonths == {txns[i].month : i \in 1..Len(txns)}

\* C27: for a non-empty transaction list with well-formed YYYY-MM months, latestMonth
\* is the largest month of the transactions, previousMonth the next-largest distinct
\* month (null when there is one month only), and the debug report built from the
\* model's rollups and the same transactions has latestMonthUsesMaxDate = true.
C27_LatestMonthIsMaxMonth ==
    (txns # <<>> /\ \A m \in TxnMonths : parseMonthParts(m) # Null) =>
        /\ model.latestMonth \in TxnMonths
        /\ \A m \in TxnMonths : MonthOrdinal(m) <= MonthOrdinal(model.latestMonth)
        /\ IF Cardinality(TxnMonths) = 1 THEN model.previousMonth = Null
           ELSE /\ model.previousMonth # Null
                /\ model.previousMonth[1] \in TxnMonths \ {model.latestMonth}
                /\ \A m \in TxnMonths \ {model.latestMonth} :
                      MonthOrdinal(m) <= MonthOrdinal(model.previousMonth[1])
        /\ latestMonthUsesMaxDate(model.monthlyRollups, txns)

\* Three months, the transaction of the latest month not the last one of the list
C27_Witness ==
    /\ Cardinality(TxnMonths) = 3
    /\ txns[Len(txns)].month # model.latestMonth
    /\ txns[1].month # model.latestMonth
    /\ model.previousMonth # Null
    /\ latestMonthUsesMaxDate(model.monthlyRollups, txns)

-----------------------------------------------------------------------------
(* Claims on the forecast of a long history *)

\* The projected point at offset k (from 1) of the forecast series
ProjectedPoint(k) == fSeries[Len(fRollups) + k]

\* The calendar-month number of the projected month at offset k
ProjectedMonthNumber(k) == MonthNumberOf(addMonths(fRollups[Len(fRollups)].month, k))

\* The seasonal adjustment the detection holds for the projected month at offset k
SeasonalAdjustmentAt(k) == fSeasonality[1].adjustmentsByMonth[ProjectedMonthNumber(k)]

\* Trend projection and applied seasonal adjustment of the expenses at offset k, combined
CombinedExpenseProjection(k) ==
    IF fSeasonality[1].isConfident
    THEN RAdd(projectAtOffset(fExpenseTrend[1], k), SeasonalAdjustmentAt(k))
    ELSE projectAtOffset(fExpenseTrend[1], k)

\* A number of currency units floored at 0, in whole cents
FlooredCents(q) == IF RLe(q, RInt(0)) THEN 0 ELSE round2Units(q)

\* C24: every projected forecast point has revenue >= 0 and expenses >= 0, each
\* floored at 0 after the trend projection and any seasonal adjustment are combined,
\* and netCashFlow = revenue - expenses of the same point, which may be negative.
C24_ProjectedPointsFloored ==
    fRollups # <<>> =>
        \A k \in 1..ProjectionHorizon :
            /\ ProjectedPoint(k).status = "projected"
            /\ ProjectedPoint(k).revenue >= 0
            /\ ProjectedPoint(k).expenses >= 0
            /\ ProjectedPoint(k).revenue = FlooredCents(projectAtOffset(fRevenueTrend[1], k))
            /\ ProjectedPoint(k).expenses = FlooredCents(CombinedExpenseProjection(k))
            /\ ProjectedPoint(k).netCashFlow =
                  ProjectedPoint(k).revenue - ProjectedPoint(k).expenses

\* A confident seasonality on a falling expense trend: a month whose trend projection
\* is negative but whose adjustment lifts it above 0, a month floored at 0 after the
\* adjustment, and a projected point with negative net cash flow
C24_Witness ==
    /\ fSeasonality # Null
    /\ fSeasonality[1].isConfident
    /\ \E k \in 1..ProjectionHorizon :
          /\ RLt(projectAtOffset(fExpenseTrend[1], k), RInt(0))
          /\ ProjectedPoint(k).expenses > 0
    /\ \E k \in 1..ProjectionHorizon :
          /\ RLt(CombinedExpenseProjection(k), RInt(0))
          /\ ProjectedPoint(k).expenses = 0
    /\ \E k \in 1..ProjectionHorizon : ProjectedPoint(k).netCashFlow < 0

-----------------------------------------------------------------------------

\* The largest and the smallest of a non-empty series of values
LargestOf(values) == CHOOSE v \in { values[i] : i \in 1..Len(values) } : \A i \in 1..Len(values) : RLe(values[i], v)
SmallestOf(values) == CHOOSE v \in { values[i] : i \in 1..Len(values) } : \A i \in 1..Len(values) : RLe(v, values[i])

\* The mean of the last min(3, n) values of a non-empty series
MeanOfLastThree(values) ==
    LET count == IF Len(values) < 3 THEN Len(values) ELSE 3
        last == [i \in 1..count |-> values[Len(values) - count + i]]
    IN  RDiv(IF count = 1 THEN last[1]
             ELSE IF count = 2 THEN RAdd(last[1], last[2])
             ELSE RAdd(RAdd(last[1], last[2]), last[3]),
             RInt(count))

\* max(0.03 x (max - min), 0.005 x |rolling baseline|, 1)
SlopeThresholdOf(values) ==
    RMax(RMax(RMul(Rat(3, 100), RSub(LargestOf(values), SmallestOf(values))),
              RMul(Rat(5, 1000), RAbs(MeanOfLastThree(values)))),
         RInt(1))

\* The decision rule of the trend method on a non-empty series
LinearTrendExpected(values) ==
    /\ Len(values) >= 6
    /\ RLe(Rat(35, 100), linearRegression(values).rSquared)
    /\ RLe(SlopeThresholdOf(values), RAbs(linearRegression(values).slope))

\* The claim for one fitted model and the series it was built from
TrendModelAsClaimed(trendModel, values) ==
    /\ trendModel.method \in {"linear-trend", "rolling-average"}
    /\ trendModel.method = "linear-trend" <=> LinearTrendExpected(values)
    /\ trendModel.method = "rolling-average" =>
          \A k \in 1..ProjectionHorizon : projectAtOffset(trendModel, k) = MeanOfLastThree(values)
    /\ trendModel.method = "linear-trend" =>
          \A k \in 1..ProjectionHorizon :
              projectAtOffset(trendModel, k) =
                  RAdd(linearRegression(values).intercept,
                       RMul(linearRegression(values).slope, RInt(Len(values) - 1 + k)))

\* C25: buildTrendModel selects linear-trend exactly when n >= 6, R^2 >= 0.35 and
\* |slope| >= max(0.03 x (max - min), 0.005 x |rolling baseline|, 1), and
\* rolling-average otherwise; a rolling-average model projects the constant mean of
\* the last min(3, n) values at every offset k >= 1, a linear-trend model projects
\* intercept + slope x (n - 1 + k).
C25_TrendMethod ==
    fRollups # <<>> =>
        /\ TrendModelAsClaimed(fRevenueTrend[1], RevenueValues(fRollups))
        /\ TrendModelAsClaimed(fExpenseTrend[1], ExpenseValues(fRollups))

\* At least six months of history whose revenue has a good fit but too flat a slope
\* (rolling-average) and whose expenses pass all three tests (linear-trend)
C25_Witness ==
    /\ Len(fRollups) >= 6
    /\ fRevenueTrend[1].method = "rolling-average"
    /\ RLe(Rat(35, 100), linearRegression(RevenueValues(fRollups)).rSquared)
    /\ fExpenseTrend[1].method = "linear-trend"
    /\ fExpenseTrend[1].slope # RInt(0)

-----------------------------------------------------------------------------

\* The calendar-month numbers the history covers
HistoryMonthNumbers == { MonthNumberOf(fRollups[k].month) : k \in 1..Len(fRollups) }

\* The expenses of the history less trend fit and seasonal adjustment of their month
HistoryAdjustedResiduals ==
    [k \in 1..Len(fRollups) |->
        RSub(RSub(Units(fRollups[k].expenses), fitAtIndex(fExpenseTrend[1], k - 1)),
             fSeasonality[1].adjustmentsByMonth[MonthNumberOf(fRollups[k].month)])]

\* The adjustments of the covered month numbers, in ascending month order
HistorySeasonalValues ==
    LET covered == SelectSeq([m \in 1..12 |-> m], LAMBDA m : m \in HistoryMonthNumbers)
    IN  [j \in 1..Len(covered) |-> fSeasonality[1].adjustmentsByMonth[covered[j]]]

\* seasonalStrength >= 0.45 or lag-12 autocorrelation >= 0.35
HistoryHasSignal ==
    \/ StrengthAtLeastThreshold(variance(HistoryAdjustedResiduals), variance(HistorySeasonalValues))
    \/ RLe(Rat(35, 100), autocorrelation(ExpenseValues(fRollups), 12))

\* The three conditions under which the seasonal adjustment is applied
SeasonalAdjustmentApplies ==
    /\ Len(fRollups) >= 18
    /\ Cardinality(HistoryMonthNumbers) >= 10
    /\ HistoryHasSignal

\* C26: a seasonal adjustment is added to a projected expense only when the history
\* has at least 18 rollup months covering at least 10 distinct calendar-month numbers
\* and seasonalStrength >= 0.45 or the lag-12 autocorrelation >= 0.35; otherwise the
\* projected expense is the trend projection floored at 0; projected revenue is never
\* seasonally adjusted.
C26_SeasonalAdjustmentGate ==
    fRollups # <<>> =>
        /\ fSeasonality[1].isConfident <=> SeasonalAdjustmentApplies
        /\ \A k \in 1..ProjectionHorizon :
              /\ ProjectedPoint(k).expenses =
                    IF SeasonalAdjustmentApplies
                    THEN FlooredCents(RAdd(projectAtOffset(fExpenseTrend[1], k), SeasonalAdjustmentAt(k)))
                    ELSE FlooredCents(projectAtOffset(fExpenseTrend[1], k))
              /\ ProjectedPoint(k).revenue = FlooredCents(projectAtOffset(fRevenueTrend[1], k))

\* The three conditions hold and a projected expense differs from its trend projection
C26_Witness ==
    /\ fRollups # <<>>
    /\ SeasonalAdjustmentApplies
    /\ \E k \in 1..ProjectionHorizon :
          ProjectedPoint(k).expenses # FlooredCents(projectAtOffset(fExpenseTrend[1], k))

-----------------------------------------------------------------------------

-----------------------------------------------------------------------------
(* The Dashboard's syncs: runSync is started by the effect on mount and on  *)
(* every change of csvUrl, and by the 'Sync now' buttons; each call awaits  *)
(* fetchSheetCsv and writes its outcome into the component state when the   *)
(* promise settles, in whatever order the network answers.                  *)

\* How many runSync calls a behaviour starts
MaxSyncs == 3

\* The URLs typed into the CSV URL field, trimmed
DraftCsvUrls == {SHEET_CSV_URL, "https://other"}

\* The URLs fetchSheetCsv(csvUrl, SHEET_CSV_FALLBACK_URL) can return as sourceUrl
SourceUrlsOf(url) == { ConfiguredUrls(url, SHEET_CSV_FALLBACK_URL)[i] : i \in 1..Len(ConfiguredUrls(url, SHEET_CSV_FALLBACK_URL)) }

\* The runSync calls whose fetch has not settled
InFlight == { id \in 1..Len(syncs) : syncs[id].outcome = "pending" }

\* runSync up to its await: setLoading(true), setError(null), the fetch is sent
StartSync(url) ==
    /\ loading' = TRUE
    /\ syncError' = Null
    /\ syncs' = Append(syncs, [url |-> url, outcome |-> "pending"])

\* The effect after the first render
Mount ==
    /\ syncs = <<>>
    /\ StartSync(csvUrl)
    /\ UNCHANGED <<csvUrl, dataSet>>
    /\ UNCHANGED <<engineVars, windowVars, ingestVars, fetchVars, seasonVars, analyticsVars, forecastVars, navVars>>

\* A 'Sync now' button, disabled while loading
SyncNow ==
    /\ syncs # <<>>
    /\ Len(syncs) < MaxSyncs
    /\ ~loading
    /\ StartSync(csvUrl)
    /\ UNCHANGED <<csvUrl, dataSet>>
    /\ UNCHANGED <<engineVars, windowVars, ingestVars, fetchVars, seasonVars, analyticsVars, forecastVars, navVars>>

\* setCsvUrl(nextUrl) and the effect it triggers: runSync depends on csvUrl, so a
\* changed URL starts a sync and an unchanged one renders nothing new
SetCsvUrl(nextUrl) ==
    /\ csvUrl' = nextUrl
    /\ IF nextUrl # csvUrl
       THEN StartSync(nextUrl)
       ELSE UNCHANGED <<loading, syncError, syncs>>
    /\ UNCHANGED dataSet
    /\ UNCHANGED <<engineVars, windowVars, ingestVars, fetchVars, seasonVars, analyticsVars, forecastVars, navVars>>

handleSaveCsvUrl(draftCsvUrl) ==
    /\ syncs # <<>>
    /\ Len(syncs) < MaxSyncs
    /\ SetCsvUrl(draftCsvUrl)

handleResetCsvUrl ==
    /\ syncs # <<>>
    /\ Len(syncs) < MaxSyncs
    /\ SetCsvUrl(SHEET_CSV_URL)

\* The fetch of call id returns records: setDataSet(buildDataSet(records, sourceUrl)),
\* then the finally block
SyncResolves(id, sourceUrl) ==
    /\ id \in InFlight
    /\ sourceUrl \in SourceUrlsOf(syncs[id].url)
    /\ dataSet' = Some([sync |-> id, sourceUrl |-> sourceUrl])
    /\ loading' = FALSE
    /\ syncs' = [syncs EXCEPT ![id].outcome = "resolved"]
    /\ UNCHANGED <<csvUrl, syncError>>
    /\ UNCHANGED <<engineVars, windowVars, ingestVars, fetchVars, seasonVars, analyticsVars, forecastVars, navVars>>

\* The fetch of call id throws: setError(message), then the finally block
SyncRejects(id) ==
    /\ id \in InFlight
    /\ syncError' = Some([sync |-> id])
    /\ loading' = FALSE
    /\ syncs' = [syncs EXCEPT ![id].outcome = "rejected"]
    /\ UNCHANGED <<csvUrl, dataSet>>
    /\ UNCHANGED <<engineVars, windowVars, ingestVars, fetchVars, seasonVars, analyticsVars, forecastVars, navVars>>

NextSync ==
    \/ Mount
    \/ SyncNow
    \/ \E draftCsvUrl \in DraftCsvUrls : handleSaveCsvUrl(draftCsvUrl)
    \/ handleResetCsvUrl
    \/ \E id \in 1..MaxSyncs, sourceUrl \in DraftCsvUrls \cup {SHEET_CSV_FALLBACK_URL} : SyncResolves(id, sourceUrl)
    \/ \E id \in 1..MaxSyncs : SyncRejects(id)

SpecSync == Init /\ [][NextSync]_vars

\* C23: for any interleaving of sync starts and completions, once no sync is in
\* flight the displayed dataSet is the result of the most recently started sync:
\* a sync started earlier that completes later never overwrites newer data.
C23_LatestSyncWins ==
    (/\ syncs # <<>>
     /\ InFlight = {}
     /\ syncs[Len(syncs)].outcome = "resolved")
    => (dataSet # Null /\ dataSet[1].sync = Len(syncs))

-----------------------------------------------------------------------------

-----------------------------------------------------------------------------
(* The Dig Here focus of the Dashboard: a single month or a custom range,   *)
(* set from the URL, from the charts and highlights, and from the month     *)
(* picker.  The search text, the data view and the cash-flow mode of the    *)
(* URL are left out: no handler below reads them to set the focus.          *)

\* The tabs the model visits
TabIds == {"big-picture", "dig-here"}

\* The months of a loaded data set, sorted latest first
LoadedMonths == <<MonthKey(2024, 2), MonthKey(2024, 1)>>

\* Values of the month, start and end parameters of the URL: absent, months, the
\* text '2024-1' and the token '2024-13'
UrlMonthParams == {Null, MonthKey(2024, 2)}
UrlStartParams == {Null, <<2, 0, 2, 4, Dash, 1>>, MonthKey(2024, 1), MonthKey(2024, 2)}
UrlEndParams == {Null, MonthKey(2024, 1), <<2, 0, 2, 4, Dash, 1, 3>>}
UrlTabParams == {Some("dig-here"), Some("elsewhere")}
UrlFocusParams == {Some("month-drilldown"), Some("custom-period")}

parseTabId(value) ==
    IF value # Null /\ value[1] \in {"big-picture", "money-left", "dig-here", "trends", "what-if", "settings"}
    THEN value ELSE Null

\* /^\d{4}-\d{2}$/.test(value) ? value : null
parseMonthToken(value) ==
    IF /\ Len(value) = 7
       /\ \A i \in {1, 2, 3, 4, 6, 7} : IsDigit(value[i])
       /\ value[5] = Dash
    THEN value ELSE Null

parseDigHereFocusContext(value) ==
    IF value # Null /\ value[1] \in {"category-shifts", "month-drilldown"} THEN value ELSE Null

\* a <= b on two strings
StringLe(a, b) == localeCompare(a, b) <= 0

\* The effect that fills the picker's drafts: it runs after a render in which the
\* picker is open and one of its dependencies has changed
MonthPickerEffect(open, available, focusMonth, startMonth, endMonth, mode) ==
    IF /\ open
       /\ <<available, focusMonth, startMonth, endMonth, open>>
            # <<availableMonths, digHereFocusMonth, digHereStartMonth, digHereEndMonth, isMonthPickerOpen>>
    THEN LET preferredMonth ==
                 IF focusMonth # Null THEN focusMonth
                 ELSE IF available # <<>> THEN available[1] ELSE <<>>
             preferredStart ==
                 IF startMonth # Null THEN startMonth
                 ELSE IF available # <<>> THEN available[Len(available)] ELSE <<>>
             preferredEnd == IF endMonth # Null THEN endMonth ELSE preferredMonth
         IN  /\ monthPickerDraftMonth' = preferredMonth
             /\ monthPickerDraftStart' = preferredStart
             /\ monthPickerDraftEnd' = preferredEnd
             /\ monthPickerMode' = IF startMonth # Null /\ endMonth # Null THEN "period" ELSE mode
    ELSE /\ UNCHANGED <<monthPickerDraftMonth, monthPickerDraftStart, monthPickerDraftEnd>>
         /\ monthPickerMode' = mode

\* The data set arrives: availableMonths is recomputed
LoadMonths ==
    /\ availableMonths = <<>>
    /\ availableMonths' = LoadedMonths
    /\ MonthPickerEffect(isMonthPickerOpen, LoadedMonths, digHereFocusMonth, digHereStartMonth, digHereEndMonth, monthPickerMode)
    /\ UNCHANGED <<activeTab, digHereFocusMonth, digHereStartMonth, digHereEndMonth, digHereFocusContext, isMonthPickerOpen>>
    /\ UNCHANGED <<engineVars, windowVars, ingestVars, fetchVars, seasonVars, analyticsVars, forecastVars, syncVars>>

\* On mount and on every popstate event
syncStateFromUrl(tabParam, monthParam, startParam, endParam, focusParam) ==
    LET tab == parseTabId(tabParam)
        month == parseMonthToken(monthParam)
        startMonth == parseMonthToken(startParam)
        endMonth == parseMonthToken(endParam)
        validRange == startMonth # Null /\ endMonth # Null /\ StringLe(startMonth, endMonth)
    IN  /\ activeTab' = IF tab = Null THEN "big-picture" ELSE tab[1]
        /\ digHereFocusMonth' = IF validRange THEN Null ELSE month
        /\ digHereStartMonth' = IF validRange THEN startMonth ELSE Null
        /\ digHereEndMonth' = IF validRange THEN endMonth ELSE Null
        /\ digHereFocusContext' = parseDigHereFocusContext(focusParam)
        /\ MonthPickerEffect(isMonthPickerOpen, availableMonths, digHereFocusMonth', digHereStartMonth', digHereEndMonth', monthPickerMode)
        /\ UNCHANGED <<availableMonths, isMonthPickerOpen>>
        /\ UNCHANGED <<engineVars, windowVars, ingestVars, fetchVars, seasonVars, analyticsVars, forecastVars, syncVars>>

\* A tab button
SelectTab(tab) ==
    /\ activeTab' = tab
    /\ UNCHANGED <<availableMonths, digHereFocusMonth, digHereStartMonth, digHereEndMonth, digHereFocusContext, isMonthPickerOpen, monthPickerMode, monthPickerDraftMonth, monthPickerDraftStart, monthPickerDraftEnd>>
    /\ UNCHANGED <<engineVars, windowVars, ingestVars, fetchVars, seasonVars, analyticsVars, forecastVars, syncVars>>

\* DigHereNavigationOptions, Null for a property that is not given and
\* Some(context) for a focus context
NavigationOptions(month, startMonth, endMonth, focusContext) ==
    [month |-> month, startMonth |-> startMonth, endMonth |-> endMonth, focusContext |-> focusContext]

\* Mutant: the single-month focus is kept when a custom range is given
navigateToDigHere_KeepFocus(options, defaultMonth) ==
    LET hasCustomRange ==
            /\ options.startMonth # Null
            /\ options.endMonth # Null
            /\ StringLe(options.startMonth, options.endMonth)
    IN  /\ activeTab' = "dig-here"
        /\ digHereFocusMonth' = IF options.month # Null THEN options.month ELSE defaultMonth
        /\ digHereStartMonth' = IF hasCustomRange THEN options.startMonth ELSE Null
        /\ digHereEndMonth' = IF hasCustomRange THEN options.endMonth ELSE Null
        /\ digHereFocusContext' =
              IF options.focusContext # Null THEN options.focusContext
              ELSE IF hasCustomRange THEN Some("custom-period") ELSE Some("category-shifts")

\* navigateToDigHere(options); defaultMonth is
\* selectedKpiComparison?.currentEndMonth ?? model.latestMonth ?? null
navigateToDigHere(options, defaultMonth) ==
    LET hasCustomRange ==
            /\ options.startMonth # Null
            /\ options.endMonth # Null
            /\ StringLe(options.startMonth, options.endMonth)
    IN  /\ activeTab' = "dig-here"
        /\ digHereFocusMonth' =
              IF hasCustomRange THEN Null
              ELSE IF options.month # Null THEN options.month ELSE defaultMonth
        /\ digHereStartMonth' = IF hasCustomRange THEN options.startMonth ELSE Null
        /\ digHereEndMonth' = IF hasCustomRange THEN options.endMonth ELSE Null
        /\ digHereFocusContext' =
              IF options.focusContext # Null THEN options.focusContext
              ELSE IF hasCustomRange THEN Some("custom-period") ELSE Some("category-shifts")

\* The months the default focus can be: none, or a month of the data set
DefaultMonths == {Null} \cup { availableMonths[i] : i \in 1..Len(availableMonths) }

\* The title or an item of the Dig Here highlights on the Big Picture tab
NavigateFromHighlights(focusContext, defaultMonth) ==
    /\ activeTab = "big-picture"
    /\ navigateToDigHere(NavigationOptions(Null, Null, Null, focusContext), defaultMonth)
    /\ MonthPickerEffect(isMonthPickerOpen, availableMonths, digHereFocusMonth', digHereStartMonth', digHereEndMonth', monthPickerMode)
    /\ UNCHANGED <<availableMonths, isMonthPickerOpen>>
    /\ UNCHANGED <<engineVars, windowVars, ingestVars, fetchVars, seasonVars, analyticsVars, forecastVars, syncVars>>

\* A month point of the net cash flow chart on the Big Picture tab
NavigateFromMonthPoint(month, defaultMonth) ==
    /\ activeTab = "big-picture"
    /\ navigateToDigHere(NavigationOptions(month, Null, Null, Some("month-drilldown")), defaultMonth)
    /\ MonthPickerEffect(isMonthPickerOpen, availableMonths, digHereFocusMonth', digHereStartMonth', digHereEndMonth', monthPickerMode)
    /\ UNCHANGED <<availableMonths, isMonthPickerOpen>>
    /\ UNCHANGED <<engineVars, windowVars, ingestVars, fetchVars, seasonVars, analyticsVars, forecastVars, syncVars>>

\* The 'Choose Month' button of the Dig Here tab
ToggleMonthPicker ==
    /\ activeTab = "dig-here"
    /\ isMonthPickerOpen' = ~isMonthPickerOpen
    /\ MonthPickerEffect(~isMonthPickerOpen, availableMonths, digHereFocusMonth, digHereStartMonth, digHereEndMonth, monthPickerMode)
    /\ UNCHANGED <<activeTab, availableMonths, digHereFocusMonth, digHereStartMonth, digHereEndMonth, digHereFocusContext>>
    /\ UNCHANGED <<engineVars, windowVars, ingestVars, fetchVars, seasonVars, analyticsVars, forecastVars, syncVars>>

\* The 'Month' and 'Custom period' buttons of the open picker
SetMonthPickerMode(mode) ==
    /\ activeTab = "dig-here"
    /\ isMonthPickerOpen
    /\ monthPickerMode' = mode
    /\ UNCHANGED <<activeTab, availableMonths, digHereFocusMonth, digHereStartMonth, digHereEndMonth, digHereFocusContext, isMonthPickerOpen, monthPickerDraftMonth, monthPickerDraftStart, monthPickerDraftEnd>>
    /\ UNCHANGED <<engineVars, windowVars, ingestVars, fetchVars, seasonVars, analyticsVars, forecastVars, syncVars>>

\* The selects of the open picker; their options are the available months
SelectDraft(field, month) ==
    /\ activeTab = "dig-here"
    /\ isMonthPickerOpen
    /\ field = "month" <=> monthPickerMode = "month"
    /\ monthPickerDraftMonth' = IF field = "month" THEN month ELSE monthPickerDraftMonth
    /\ monthPickerDraftStart' = IF field = "start" THEN month ELSE monthPickerDraftStart
    /\ monthPickerDraftEnd' = IF field = "end" THEN month ELSE monthPickerDraftEnd
    /\ UNCHANGED <<activeTab, availableMonths, digHereFocusMonth, digHereStartMonth, digHereEndMonth, digHereFocusContext, isMonthPickerOpen, monthPickerMode>>
    /\ UNCHANGED <<engineVars, windowVars, ingestVars, fetchVars, seasonVars, analyticsVars, forecastVars, syncVars>>

\* 'Apply' in month mode
applyMonthChoice(defaultMonth) ==
    /\ activeTab = "dig-here"
    /\ isMonthPickerOpen
    /\ monthPickerMode = "month"
    /\ IF monthPickerDraftMonth = <<>>
       THEN UNCHANGED <<activeTab, digHereFocusMonth, digHereStartMonth, digHereEndMonth, digHereFocusContext, isMonthPickerOpen>>
       ELSE /\ navigateToDigHere(NavigationOptions(monthPickerDraftMonth, Null, Null, Some("month-drilldown")), defaultMonth)
            /\ isMonthPickerOpen' = FALSE
    /\ UNCHANGED <<availableMonths, monthPickerMode, monthPickerDraftMonth, monthPickerDraftStart, monthPickerDraftEnd>>
    /\ UNCHANGED <<engineVars, windowVars, ingestVars, fetchVars, seasonVars, analyticsVars, forecastVars, syncVars>>

\* 'Apply' in period mode: the drafts are put in order first
applyPeriodChoice(defaultMonth) ==
    /\ activeTab = "dig-here"
    /\ isMonthPickerOpen
    /\ monthPickerMode = "period"
    /\ IF monthPickerDraftStart = <<>> \/ monthPickerDraftEnd = <<>>
       THEN UNCHANGED <<activeTab, digHereFocusMonth, digHereStartMonth, digHereEndMonth, digHereFocusContext, isMonthPickerOpen>>
       ELSE LET startMonth == IF StringLe(monthPickerDraftStart, monthPickerDraftEnd)
                              THEN monthPickerDraftStart ELSE monthPickerDraftEnd
                endMonth == IF StringLe(monthPickerDraftStart, monthPickerDraftEnd)
                            THEN monthPickerDraftEnd ELSE monthPickerDraftStart
            IN  /\ navigateToDigHere(NavigationOptions(Null, startMonth, endMonth, Some("custom-period")), defaultMonth)
                /\ isMonthPickerOpen' = FALSE
    /\ UNCHANGED <<availableMonths, monthPickerMode, monthPickerDraftMonth, monthPickerDraftStart, monthPickerDraftEnd>>
    /\ UNCHANGED <<engineVars, windowVars, ingestVars, fetchVars, seasonVars, analyticsVars, forecastVars, syncVars>>

\* 'All Dates': resetDigHereFocus(), then the picker closes
resetDigHereFocus ==
    /\ activeTab = "dig-here"
    /\ isMonthPickerOpen
    /\ digHereFocusMonth' = Null
    /\ digHereStartMonth' = Null
    /\ digHereEndMonth' = Null
    /\ digHereFocusContext' = Null
    /\ isMonthPickerOpen' = FALSE
    /\ UNCHANGED <<activeTab, availableMonths, monthPickerMode, monthPickerDraftMonth, monthPickerDraftStart, monthPickerDraftEnd>>
    /\ UNCHANGED <<engineVars, windowVars, ingestVars, fetchVars, seasonVars, analyticsVars, forecastVars, syncVars>>

NextNavigation ==
    \/ LoadMonths
    \/ \E tabParam \in UrlTabParams, monthParam \in UrlMonthParams, startParam \in UrlStartParams, endParam \in UrlEndParams, focusParam \in UrlFocusParams : syncStateFromUrl(tabParam, monthParam, startParam, endParam, focusParam)
    \/ \E tab \in TabIds : SelectTab(tab)
    \/ \E focusContext \in {Null, Some("category-shifts")}, defaultMonth \in DefaultMonths : NavigateFromHighlights(focusContext, defaultMonth)
    \/ \E i \in 1..Len(availableMonths), defaultMonth \in DefaultMonths : NavigateFromMonthPoint(availableMonths[i], defaultMonth)
    \/ ToggleMonthPicker
    \/ \E mode \in {"month", "period"} : SetMonthPickerMode(mode)
    \/ \E field \in {"month", "start", "end"}, i \in 1..Len(availableMonths) : SelectDraft(field, availableMonths[i])
    \/ \E defaultMonth \in DefaultMonths : applyMonthChoice(defaultMonth)
    \/ \E defaultMonth \in DefaultMonths : applyPeriodChoice(defaultMonth)
    \/ resetDigHereFocus

SpecNavigation == Init /\ [][NextNavigation]_vars

\* C30: in every reachable Dashboard state digHereStartMonth and digHereEndMonth are
\* both null, or both non-null with start <= end; and whenever the range is set
\* digHereFocusMonth is null, so the single-month focus and the custom range are
\* never active together.
C30_FocusMonthOrRange ==
    /\ digHereStartMonth = Null <=> digHereEndMonth = Null
    /\ digHereStartMonth # Null =>
          /\ StringLe(digHereStartMonth, digHereEndMonth)
          /\ digHereFocusMonth = Null

\* A custom range of two different months, applied in the picker while a single
\* month was in the draft
C30_Witness ==
    /\ digHereStartMonth # Null
    /\ digHereEndMonth # Null
    /\ digHereStartMonth # digHereEndMonth
    /\ digHereFocusContext = Some("custom-period")
    /\ monthPickerDraftStart = digHereEndMonth
    /\ monthPickerDraftEnd = digHereStartMonth
    /\ monthPickerDraftMonth # <<>>

-----------------------------------------------------------------------------
====
